---- MODULE Spec2Model ----
(***************************************************************************)
(* Version store of promptmaster-lite (src-tauri/src): the prompts and     *)
(* versions tables behind the connection mutex, the commands save_prompt,  *)
(* save_new_version, rollback_to_version and metadata_update, the mirror   *)
(* files they write, and the file watcher importing and recreating files.  *)
(*                                                                         *)
(* Texts (titles, tags, bodies) are sequences of tokens; a semver string   *)
(* "a.b.c" is the tuple <<a, b, c>>, and a version string that is not      *)
(* three dot-separated numbers is a tuple of another length.  Uuids and    *)
(* timestamps are the value of the clock when the operation read it: every *)
(* operation reads the clock once and the clock then advances, so they are *)
(* unique and ordered by the time of the read (not of the commit).  A day   *)
(* is DayTicks readings of the clock long.                                 *)
(***************************************************************************)
EXTENDS Integers, Sequences, FiniteSets, TLC

\* ---------------------------------------------------------------- bounds
MaxCalls == 4
WatchedCalls == 2
MaxEdits == 1
MaxPrompts == 2
DayTicks == 2

Callers == {"c1", "c2"}
WatcherId == "w"
Threads == Callers \cup {WatcherId}
Free == "free"

\* ------------------------------------------------------- program constants
MaxTitleLen == 255
MaxBodyLen == 100000
MaxTags == 20
MaxTagLen == 50
MetaMaxTags == 10
MetaMaxTagLen == 25
MetaMaxPathLen == 255
MetaMaxNotesLen == 10000

\* ---------------------------------------------------------------- inputs
Space == " "
Newline == "\n"
Quote == "\""
Backslash == "\\"
Whitespace == {Space, Newline}
UnsafeTokens == {"data:"}
Tab == "\t"
ControlChars == {Newline, Tab}
B0 == <<"h">>
B1 == <<"h", "w">>
B2 == <<"x", Space>>
B3 == <<"y">>
Bodies == {B0, B1, B2, B3}
CreateBodies == {B0, B2}
EditBodies == {B0, B2}
TitleA == <<"A">>
TitleB == <<"a", "!">>
Titles == {TitleA, TitleB}
TagsOf(title) == IF title = TitleB THEN <<<<"t">>>> ELSE <<>>
UnknownUuid == 99
NoUuid == 0
V100 == <<1, 0, 0>>
Uncategorized == <<"Uncategorized">>
CategoryPaths == {<<"c">>}
NoSemver == <<>>
NoBody == <<>>

VARIABLES prompts, versions, fts, saved, lock, clock, call, files, queue, edits,
          budget

vars ==
  <<prompts, versions, fts, saved, lock, clock, call, files, queue, edits, budget>>

\* ------------------------------------------------------------ text helpers
RECURSIVE TrimStart(_)
TrimStart(s) == IF s # <<>> /\ Head(s) \in Whitespace THEN TrimStart(Tail(s)) ELSE s

RECURSIVE TrimEnd(_)
TrimEnd(s) ==
  IF s # <<>> /\ s[Len(s)] \in Whitespace THEN TrimEnd(SubSeq(s, 1, Len(s) - 1)) ELSE s

Trim(s) == TrimEnd(TrimStart(s))

Contains(s, toks) == \E i \in 1..Len(s) : s[i] \in toks

ToLower(ch) == IF ch = "A" THEN "a" ELSE ch

\* security.rs validate_prompt_content
validate_prompt_content(content) == ~Contains(content, UnsafeTokens)

validate_prompt_input_any(title, content, tags) == TRUE

\* security.rs validate_prompt_input
validate_prompt_input(title, content, tags) ==
  /\ Trim(title) # <<>>
  /\ Len(title) <= MaxTitleLen
  /\ Trim(content) # <<>>
  /\ Len(content) <= MaxBodyLen
  /\ Len(tags) <= MaxTags
  /\ \A i \in 1..Len(tags) :
       /\ Trim(tags[i]) # <<>>
       /\ Len(tags[i]) <= MaxTagLen
       /\ ~Contains(tags[i], {"<", ">"})
  /\ validate_prompt_content(content)
  /\ ~Contains(title, {"<", ">"})

\* ---------------------------------------------------------- semver helpers
\* versions.rs parse_semver: Ok exactly for three dot-separated numbers
parse_semver(s) == Len(s) = 3

\* a bump of the minor number instead of the patch number
bump_minor_version(s) == <<s[1], s[2] + 1, 0>>

bump_patch_version(s) == <<s[1], s[2], s[3] + 1>>

\* decimal text of a number below 100, as digit codes
Digits(n) == IF n < 10 THEN <<n>> ELSE <<n \div 10, n % 10>>

\* text of a semver string as character codes; '.' sorts below the digits
RECURSIVE SemverText(_)
SemverText(s) ==
  IF s = <<>> THEN <<>>
  ELSE IF Len(s) = 1 THEN Digits(s[1])
  ELSE Digits(s[1]) \o <<-1>> \o SemverText(Tail(s))

\* byte-wise (SQLite BINARY collation) comparison a < b of two texts
RECURSIVE TextLess(_, _)
TextLess(a, b) ==
  IF b = <<>> THEN FALSE
  ELSE IF a = <<>> THEN TRUE
  ELSE IF Head(a) # Head(b) THEN Head(a) < Head(b)
  ELSE TextLess(Tail(a), Tail(b))

\* the three CAST(... AS INTEGER) sort keys of the "highest semver" query;
\* a component that is missing casts to 0
CastKey(s) == [i \in 1..3 |-> IF i <= Len(s) THEN s[i] ELSE 0]

KeyLess(a, b) ==
  \/ a[1] < b[1]
  \/ a[1] = b[1] /\ a[2] < b[2]
  \/ a[1] = b[1] /\ a[2] = b[2] /\ a[3] < b[3]

\* ------------------------------------------------------------- the tables
Rows(vs, p) == {i \in 1..Len(vs) : vs[i].prompt_uuid = p}

FindVersion(vs, u) == {i \in 1..Len(vs) : vs[i].uuid = u}

SemverExists(vs, p, s) == \E i \in Rows(vs, p) : vs[i].semver = s

\* a "latest version" query without its WHERE prompt_uuid = ?1
LatestVersionAnyPrompt(vs, p) ==
  {i \in 1..Len(vs) : \A j \in 1..Len(vs) : vs[j].created_at <= vs[i].created_at}

\* ORDER BY created_at DESC, semver DESC LIMIT 1
LatestVersion(vs, p) ==
  {i \in Rows(vs, p) :
     \A j \in Rows(vs, p) \ {i} :
        \/ vs[j].created_at < vs[i].created_at
        \/ /\ vs[j].created_at = vs[i].created_at
           /\ TextLess(SemverText(vs[j].semver), SemverText(vs[i].semver))}

\* the rows the "highest existing semver" query may return first
HighestSemver(vs, p) ==
  {i \in Rows(vs, p) :
     \A j \in Rows(vs, p) : ~KeyLess(CastKey(vs[i].semver), CastKey(vs[j].semver))}

\* a conflict check that never finds a version
detect_no_conflict(vs, p, body) == {}

\* versions.rs detect_version_conflict: SELECT ... LIMIT 1 without ORDER BY
detect_version_conflict(vs, p, body) ==
  {vs[i].semver : i \in {j \in Rows(vs, p) : vs[j].body = body}}

\* versions.rs get_version_by_uuid: the rows with that uuid (none or one)
get_version_by_uuid(vs, u) == {vs[i] : i \in FindVersion(vs, u)}

NewVersion(u, p, s, b, t, par) ==
  [uuid |-> u, prompt_uuid |-> p, semver |-> s, body |-> b,
   metadata |-> <<>>, created_at |-> t, parent_uuid |-> par]

\* ------------------------------------------------------- results of calls
Res(kind, semver, uuid) == [kind |-> kind, semver |-> semver, uuid |-> uuid]
NoRes == Res("None", NoSemver, NoUuid)

NoPath == [date |-> 0, slug |-> <<>>, semver |-> NoSemver]

\* metadata.rs PromptMetadata: every field is optional, <<>> or <<value>>
Metadata(title, tags, models, category_path, notes, custom_fields) ==
  [title |-> title, tags |-> tags, models |-> models,
   category_path |-> category_path, notes |-> notes,
   custom_fields |-> custom_fields]

NoMeta == Metadata(<<>>, <<>>, <<>>, <<>>, <<>>, <<>>)

\* metadata.rs impl Default for PromptMetadata
DefaultMetadata == Metadata(<<>>, <<>>, <<>>, <<"Uncategorized">>, <<>>, <<>>)

PickMine(mine, other) == IF mine # <<>> THEN mine ELSE other

\* metadata.rs merge_with lines 45-47: one field
Pick(mine, other) == IF other # <<>> THEN other ELSE mine

\* metadata.rs PromptMetadata::merge_with
merge_with(self, other) ==
  Metadata(Pick(self.title, other.title), Pick(self.tags, other.tags),
           Pick(self.models, other.models),
           Pick(self.category_path, other.category_path),
           Pick(self.notes, other.notes),
           Pick(self.custom_fields, other.custom_fields))

validateAny(m) == TRUE

\* metadata.rs PromptMetadata::validate
validate(m) ==
  /\ m.title # <<>> => Trim(m.title[1]) # <<>> /\ Len(m.title[1]) <= MaxTitleLen
  /\ m.tags # <<>> =>
       /\ Len(m.tags[1]) <= MetaMaxTags
       /\ \A i \in 1..Len(m.tags[1]) :
            Len(m.tags[1][i]) <= MetaMaxTagLen /\ Trim(m.tags[1][i]) # <<>>
  /\ m.category_path # <<>> =>
       /\ Len(m.category_path[1]) <= MetaMaxPathLen
       /\ ~Contains(m.category_path[1], ControlChars)
  /\ m.notes # <<>> => Len(m.notes[1]) <= MetaMaxNotesLen

IdleCall ==
  [pc |-> "idle", op |-> "none", p |-> NoUuid, v |-> NoUuid, title |-> <<>>,
   tags |-> <<>>, body |-> NoBody, semver |-> NoSemver, now |-> 0,
   out |-> NoRes, path |-> NoPath, meta |-> NoMeta, category |-> <<>>,
   old_path |-> <<>>, counts |-> <<>>, tree |-> <<>>]

\* the state after DatabaseManager::new on an empty directory, with a caller
\* budget of n commands and e user edits of mirror files to come
InitOf(n, e) ==
  /\ budget = n
  /\ prompts = <<>>
  /\ versions = <<>>
  /\ fts = <<>>
  /\ saved = <<<<>>, <<>>, <<>>>>
  /\ lock = Free
  /\ clock = 1
  /\ call = [t \in Threads |-> IdleCall]
  /\ files = <<>>
  /\ queue = <<>>
  /\ edits = e

InitWith(n) == InitOf(n, MaxEdits)

Init == InitWith(WatchedCalls)

InitCommands == InitWith(MaxCalls)

\* ------------------------------------------- closures run in a transaction
\* Each closure is the set of its possible outcomes: the tables as the
\* closure leaves them (before commit or rollback) and its result.  A result
\* of kind "Fault" is a statement failing in the backend (I/O, disk full)
\* after an earlier statement of the closure was applied; "StoreError" is an
\* error the statements themselves produce.
Outcome(ps, vs, out) == [prompts |-> ps, versions |-> vs, out |-> out]

Touch(ps, p, t) == [ps EXCEPT ![p].updated_at = t]

\* versions.rs save_new_version / rollback_to_version: INSERT INTO versions
\* under idx_versions_unique_semver, then UPDATE prompts SET updated_at; the
\* UPDATE may fail in the backend after the INSERT was applied
InsertVersion(ps, vs, row) ==
  IF SemverExists(vs, row.prompt_uuid, row.semver)
    THEN {Outcome(ps, vs, Res("StoreError", row.semver, NoUuid))}
    ELSE {Outcome(Touch(ps, row.prompt_uuid, row.created_at), Append(vs, row),
                  Res("Ok", row.semver, row.uuid)),
          Outcome(ps, Append(vs, row), Res("Fault", NoSemver, NoUuid))}

\* a createPrompt that stores the trimmed content
SavePromptClosureTrim(ps, vs, c) ==
  LET row == [title |-> c.title, tags |-> c.tags, category_path |-> Uncategorized,
              created_at |-> c.now, updated_at |-> c.now]
  IN {Outcome((c.now :> row) @@ ps,
              Append(vs, NewVersion(c.now, c.now, V100, Trim(c.body), c.now, NoUuid)),
              Res("Ok", V100, c.now))}

\* prompts.rs save_prompt, the closure of with_transaction
SavePromptClosure(ps, vs, c) ==
  LET row == [title |-> c.title, tags |-> c.tags, category_path |-> Uncategorized,
              created_at |-> c.now, updated_at |-> c.now]
      ps1 == (c.now :> row) @@ ps
      ver == NewVersion(c.now, c.now, V100, c.body, c.now, NoUuid)
  IN {Outcome(ps1, Append(vs, ver), Res("Ok", V100, c.now)),
      Outcome(ps1, vs, Res("Fault", NoSemver, NoUuid))}

\* versions.rs save_new_version lines 265-308: the candidate semvers, or
\* <<>> for a failure (semver parse failure, or the "highest semver" query
\* not preparing because the SQL function reverse() is not defined)
SaveCandidates(vs, p, l) ==
  IF ~parse_semver(vs[l].semver) THEN {NoSemver}
  ELSE IF ~SemverExists(vs, p, bump_patch_version(vs[l].semver))
    THEN {bump_patch_version(vs[l].semver)}
  ELSE {NoSemver} \cup
       {IF parse_semver(vs[h].semver) THEN bump_patch_version(vs[h].semver)
        ELSE NoSemver : h \in HighestSemver(vs, p)}

\* versions.rs save_new_version, the closure of with_transaction
SaveVersionClosure(ps, vs, c) ==
  IF c.p \notin DOMAIN ps
    THEN {Outcome(ps, vs, Res("PromptNotFound", NoSemver, NoUuid))}
  ELSE IF detect_version_conflict(vs, c.p, c.body) # {}
    THEN {Outcome(ps, vs, Res("DuplicateContent", s, NoUuid)) :
            s \in detect_version_conflict(vs, c.p, c.body)}
  ELSE IF LatestVersion(vs, c.p) = {}
    THEN InsertVersion(ps, vs, NewVersion(c.now, c.p, V100, c.body, c.now, NoUuid))
  ELSE UNION {
         UNION {IF cand = NoSemver
                  THEN {Outcome(ps, vs, Res("StoreError", NoSemver, NoUuid))}
                  ELSE InsertVersion(ps, vs,
                         NewVersion(c.now, c.p, cand, c.body, c.now, vs[l].uuid)) :
                cand \in SaveCandidates(vs, c.p, l)} :
         l \in LatestVersion(vs, c.p)}

\* versions.rs rollback_to_version, the closure of with_transaction
RollbackClosure(ps, vs, c) ==
  IF c.p \notin DOMAIN ps
    THEN {Outcome(ps, vs, Res("PromptNotFound", NoSemver, NoUuid))}
  ELSE IF LatestVersion(vs, c.p) = {}
    THEN InsertVersion(ps, vs, NewVersion(c.now, c.p, V100, c.body, c.now, NoUuid))
  ELSE UNION {
         IF ~parse_semver(vs[l].semver)
           THEN {Outcome(ps, vs, Res("StoreError", NoSemver, NoUuid))}
           ELSE InsertVersion(ps, vs,
                  NewVersion(c.now, c.p, bump_patch_version(vs[l].semver),
                             c.body, c.now, vs[l].uuid)) :
         l \in LatestVersion(vs, c.p)}

\* an import that replaces the body of the version of the declared semver
ImportClosureOverwrite(ps, vs, c) ==
  {Outcome(ps,
           IF SemverExists(vs, c.p, c.semver)
             THEN [i \in 1..Len(vs) |->
                     IF vs[i].prompt_uuid = c.p /\ vs[i].semver = c.semver
                       THEN [vs[i] EXCEPT !.body = c.body] ELSE vs[i]]
             ELSE Append(vs, NewVersion(c.now, c.p, c.semver, c.body, c.now, NoUuid)),
           Res("Ok", c.semver, NoUuid))}

\* an import that renumbers a document whose declared semver exists
ImportClosureRenumber(ps, vs, c) ==
  LET free == CHOOSE n \in 0..Len(vs) : ~SemverExists(vs, c.p, <<1, 0, n>>)
      s == IF SemverExists(vs, c.p, c.semver) THEN <<1, 0, free>> ELSE c.semver
  IN {Outcome(ps, Append(vs, NewVersion(c.now, c.p, s, c.body, c.now, NoUuid)),
              Res("Ok", s, c.now))}

\* an import that inserts only a body no version of the prompt holds
ImportClosureByBody(ps, vs, c) ==
  IF \E i \in Rows(vs, c.p) : vs[i].body = c.body \/ vs[i].semver = c.semver
    THEN {Outcome(ps, vs, Res("Ok", c.semver, NoUuid))}
    ELSE {Outcome(ps, Append(vs, NewVersion(c.now, c.p, c.semver, c.body, c.now, NoUuid)),
                  Res("Ok", c.semver, c.now))}

\* an import that inserts the version and leaves the prompts row alone
ImportClosureKeepTitle(ps, vs, c) ==
  IF SemverExists(vs, c.p, c.semver)
    THEN {Outcome(ps, vs, Res("Ok", c.semver, NoUuid))}
    ELSE {Outcome(ps, Append(vs, NewVersion(c.now, c.p, c.semver, c.body, c.now, NoUuid)),
                  Res("Ok", c.semver, c.now))}

\* an import that inserts without looking for the declared semver
ImportClosureNoCheck(ps, vs, c) ==
  {Outcome(ps, Append(vs, NewVersion(c.now, c.p, c.semver, c.body, c.now, NoUuid)),
           Res("Ok", c.semver, c.now))}

\* prompts.rs update_prompt_from_file, the closure of with_transaction:
\* UPDATE prompts, then INSERT INTO versions unless the declared semver
\* exists; the INSERT may fail in the backend after the UPDATE was applied
ImportClosure(ps, vs, c) ==
  LET ps1 == IF c.p \in DOMAIN ps
               THEN [ps EXCEPT ![c.p].title = c.title, ![c.p].tags = c.tags,
                               ![c.p].updated_at = c.now]
               ELSE ps
  IN IF SemverExists(vs, c.p, c.semver)
       THEN {Outcome(ps1, vs, Res("Ok", c.semver, NoUuid))}
       ELSE {Outcome(ps1,
                     Append(vs, NewVersion(c.now, c.p, c.semver, c.body, c.now, NoUuid)),
                     Res("Ok", c.semver, c.now)),
             Outcome(ps1, vs, Res("Fault", NoSemver, NoUuid))}

\* metadata.rs metadata_update, the closure of with_transaction.  The
\* existing metadata column is read as a String: on a NULL column the read
\* either fails or yields no metadata.  c.now is the datetime('now') of the
\* UPDATE statements.
MetadataClosure(ps, vs, c) ==
  LET I == FindVersion(vs, c.v)
      Write(i, old) ==
        LET final == merge_with(old, c.meta)
            p == vs[i].prompt_uuid
            ps1 == IF final.title # <<>> /\ p \in DOMAIN ps
                     THEN [ps EXCEPT ![p].title = final.title[1],
                                     ![p].updated_at = c.now]
                     ELSE ps
            ps2 == IF final.tags # <<>> /\ p \in DOMAIN ps
                     THEN [ps1 EXCEPT ![p].tags = final.tags[1],
                                      ![p].updated_at = c.now]
                     ELSE ps1
        IN Outcome(ps2, [vs EXCEPT ![i].metadata = <<final>>],
                   Res("Ok", NoSemver, c.v))
  IN IF I = {} THEN {Outcome(ps, vs, Res("Ok", NoSemver, NoUuid))}
     ELSE UNION {IF vs[i].metadata = <<>>
                   THEN {Outcome(ps, vs, Res("StoreError", NoSemver, NoUuid)),
                         Write(i, DefaultMetadata)}
                   ELSE {Write(i, vs[i].metadata[1])} : i \in I}

\* categories.rs update_prompt_category, the closure of with_transaction;
\* c.now is the datetime('now') of the UPDATE
CategoryClosure(ps, vs, c) ==
  IF c.p \notin DOMAIN ps
    THEN {Outcome(ps, vs, Res("StoreError", NoSemver, NoUuid))}
    ELSE {Outcome([ps EXCEPT ![c.p].category_path = c.category,
                             ![c.p].updated_at = c.now],
                  vs, Res("Ok", NoSemver, NoUuid))}

\* categories.rs is_valid_category_path
is_valid_category_path(path) ==
  /\ ~Contains(path, ControlChars \cup {Backslash, "<", ">", ":", Quote, "|", "?", "*"})
  /\ path # <<>>

\* SQLite's path LIKE 'prefix%' for a prefix without '%': letters compare
\* without case, '_' in the prefix stands for any character
Like(path, prefix) ==
  /\ Len(path) >= Len(prefix)
  /\ \A i \in 1..Len(prefix) :
       prefix[i] = "_" \/ ToLower(path[i]) = ToLower(prefix[i])

\* SQLite's SUBSTR(text, start): the characters from the start-th on
SUBSTR(text, start) == SubSeq(text, start, Len(text))

\* categories.rs rename_category lines 132-141: the new path of a
\* subcategory, new_path || SUBSTR(category_path, len(old_path + "/") + 1)
RenamedSubcategory(path, old_path, new_path) ==
  new_path \o SUBSTR(path, Len(old_path \o <<"/">>) + 1)

\* categories.rs rename_category, the closure of with_transaction; c.now is
\* the datetime('now') of the UPDATE statements
RenameClosure(ps, vs, c) ==
  LET Exact == {p \in DOMAIN ps : ps[p].category_path = c.old_path}
      ps1 == [p \in DOMAIN ps |->
                IF p \in Exact
                  THEN [ps[p] EXCEPT !.category_path = c.category, !.updated_at = c.now]
                  ELSE ps[p]]
      Sub == {p \in DOMAIN ps : Like(ps1[p].category_path, c.old_path \o <<"/">>)}
      ps2 == [p \in DOMAIN ps |->
                IF p \in Sub
                  THEN [ps1[p] EXCEPT
                          !.category_path = RenamedSubcategory(@, c.old_path, c.category),
                          !.updated_at = c.now]
                  ELSE ps1[p]]
  IN IF \E p \in DOMAIN ps : ps[p].category_path = c.category
       THEN {Outcome(ps, vs, Res("CategoryExists", NoSemver, NoUuid))}
     ELSE IF Exact = {} /\ Sub = {}
       THEN {Outcome(ps, vs, Res("StoreError", NoSemver, NoUuid))}
     ELSE {Outcome(ps2, vs, Res("Ok", NoSemver, NoUuid))}

Closure(ps, vs, c) ==
  CASE c.op = "save_prompt" -> SavePromptClosure(ps, vs, c)
    [] c.op = "rename_category" -> RenameClosure(ps, vs, c)
    [] c.op = "update_prompt_category" -> CategoryClosure(ps, vs, c)
    [] c.op = "metadata_update" -> MetadataClosure(ps, vs, c)
    [] c.op = "save_new_version" -> SaveVersionClosure(ps, vs, c)
    [] c.op = "rollback_to_version" -> RollbackClosure(ps, vs, c)
    [] c.op = "import" -> ImportClosure(ps, vs, c)

\* --------------------------------------------------------- mirror files
Alnum == {"A", "a", "b", "h", "t", "w", "x"}

\* the title slug of versions.rs lines 98-108 / prompts.rs lines 108-118
RECURSIVE Slug(_)
Slug(title) ==
  IF title = <<>> THEN <<>>
  ELSE LET ch == Head(title)
       IN IF ch = Space THEN <<"-">> \o Slug(Tail(title))
          ELSE IF ch \in Alnum \cup {"-", "_"} THEN <<ToLower(ch)>> \o Slug(Tail(title))
          ELSE Slug(Tail(title))

DateOf(t) == t \div DayTicks

\* Utc::now().format("%Y-%m-%d") where no timestamp is taken: the time now is
\* that of the last read of the clock
Today == DateOf(clock - 1)

PathOf(date, title, semver) == [date |-> date, slug |-> Slug(title), semver |-> semver]

\* ------------------------------------------------------ the mirror document
\* A document is a text: a sequence of characters, the keys of the front
\* matter ("uuid: ", ...) and its delimiter "---" being one token each.
DigitChars == <<"0", "1", "2", "3", "4", "5", "6", "7", "8", "9">>

\* Display of a number
DecimalText(n) ==
  IF n < 10 THEN <<DigitChars[n + 1]>>
  ELSE <<DigitChars[(n \div 10) + 1], DigitChars[(n % 10) + 1]>>

\* the characters of a semver string
RECURSIVE SemverString(_)
SemverString(s) ==
  IF s = <<>> THEN <<>>
  ELSE IF Len(s) = 1 THEN DecimalText(s[1])
  ELSE DecimalText(s[1]) \o <<".">> \o SemverString(Tail(s))

\* Debug of a String, without its quotes: quote, backslash and newline are
\* escaped
RECURSIVE EscapeDebug(_)
EscapeDebug(s) ==
  IF s = <<>> THEN <<>>
  ELSE (IF Head(s) = Quote THEN <<Backslash, Quote>>
        ELSE IF Head(s) = Backslash THEN <<Backslash, Backslash>>
        ELSE IF Head(s) = Newline THEN <<Backslash, "n">>
        ELSE <<Head(s)>>) \o EscapeDebug(Tail(s))

RECURSIVE DebugItems(_)
DebugItems(tags) ==
  IF tags = <<>> THEN <<>>
  ELSE <<Quote>> \o EscapeDebug(Head(tags)) \o <<Quote>>
       \o (IF Len(tags) > 1 THEN <<",", Space>> ELSE <<>>)
       \o DebugItems(Tail(tags))

\* {:?} of a Vec<String>
DebugTags(tags) == <<"[">> \o DebugItems(tags) \o <<"]">>

\* versions.rs create_markdown_content, and the same format! of
\* save_prompt_file and recreate_prompt_file, the two dates as arguments
create_markdown_content(uuid, title, body, semver, tags, created, modified) ==
  <<"---", Newline, "uuid: ", Quote>> \o DecimalText(uuid) \o <<Quote, Newline>>
    \o <<"version: ", Quote>> \o SemverString(semver) \o <<Quote, Newline>>
    \o <<"title: ", Quote>> \o title \o <<Quote, Newline>>
    \o <<"tags: ">> \o DebugTags(tags) \o <<Newline>>
    \o <<"created: ">> \o DecimalText(created) \o <<Newline>>
    \o <<"modified: ">> \o DecimalText(modified) \o <<Newline>>
    \o <<"---", Newline, Newline>> \o body

\* the least index from i on at which s holds a token of stop, or Len(s) + 1
RECURSIVE RunEnd(_, _, _)
RunEnd(s, i, stop) ==
  IF i > Len(s) \/ s[i] \in stop THEN i ELSE RunEnd(s, i + 1, stop)

\* the pieces of s between the separators sep
RECURSIVE Split(_, _)
Split(s, sep) ==
  LET j == RunEnd(s, 1, {sep})
  IN IF j > Len(s) THEN <<s>>
     ELSE <<SubSeq(s, 1, j - 1)>> \o Split(SubSeq(s, j + 1, Len(s)), sep)

\* str::trim_matches
RECURSIVE trim_matches(_, _)
trim_matches(s, ch) ==
  IF s # <<>> /\ Head(s) = ch THEN trim_matches(Tail(s), ch)
  ELSE IF s # <<>> /\ s[Len(s)] = ch THEN trim_matches(SubSeq(s, 1, Len(s) - 1), ch)
  ELSE s

\* the capture of the leftmost match of  key open ([^close]+) close  in
\* text (least = 1), or of  key open ([^close]*) close  (least = 0), as an
\* option
Capture(text, key, open, close, least) ==
  LET ends(i) == RunEnd(text, i + 2, {close})
      at == {i \in 1..(Len(text) - 2) :
               /\ text[i] = key
               /\ text[i + 1] = open
               /\ ends(i) <= Len(text)
               /\ ends(i) - (i + 2) >= least}
  IN IF at = {} THEN <<>>
     ELSE LET i == CHOOSE k \in at : \A l \in at : k <= l
          IN <<SubSeq(text, i + 2, ends(i) - 1)>>

\* prompts.rs FRONTMATTER_REGEX ^---\n([\s\S]*?)\n---\n([\s\S]*): the two
\* captures, or <<>> when the text does not match
FRONTMATTER_REGEX(text) ==
  LET closes == {i \in 3..(Len(text) - 2) :
                   text[i] = Newline /\ text[i + 1] = "---" /\ text[i + 2] = Newline}
  IN IF Len(text) >= 2 /\ text[1] = "---" /\ text[2] = Newline /\ closes # {}
       THEN LET i == CHOOSE k \in closes : \A l \in closes : k <= l
            IN <<SubSeq(text, 3, i - 1), SubSeq(text, i + 3, Len(text))>>
       ELSE <<>>

UUID_REGEX(front) == Capture(front, "uuid: ", Quote, Quote, 1)

TITLE_REGEX(front) == Capture(front, "title: ", Quote, Quote, 1)

TAGS_REGEX(front) == Capture(front, "tags: ", "[", "]", 0)

VERSION_REGEX(front) == Capture(front, "version: ", Quote, Quote, 1)

IsNumber(text) ==
  /\ text # <<>>
  /\ \A i \in 1..Len(text) : \E d \in 1..10 : DigitChars[d] = text[i]

RECURSIVE ParseNumber(_)
ParseNumber(text) ==
  IF text = <<>> THEN 0
  ELSE 10 * ParseNumber(SubSeq(text, 1, Len(text) - 1))
       + (CHOOSE d \in 0..9 : DigitChars[d + 1] = text[Len(text)])

\* the uuid a text stands for; a text that is no number is a uuid that no
\* row has
UuidOf(text) == IF IsNumber(text) THEN ParseNumber(text) ELSE UnknownUuid

\* the semver tuple a version string stands for; a string that is not
\* dot-separated numbers is the malformed <<0>>
SemverOf(text) ==
  LET parts == Split(text, ".")
  IN IF \A i \in 1..Len(parts) : IsNumber(parts[i])
       THEN [i \in 1..Len(parts) |-> ParseNumber(parts[i])]
       ELSE <<0>>

\* prompts.rs update_prompt_from_file lines 219-233: split on ',', trim,
\* trim_matches('"'), drop the empty pieces
ParseTags(tags_str) ==
  LET parts == Split(tags_str, ",")
      cut == [i \in 1..Len(parts) |-> trim_matches(Trim(parts[i]), Quote)]
      full(t) == t # <<>>
  IN IF Trim(tags_str) = <<>> THEN <<>> ELSE SelectSeq(cut, full)

NoDocument ==
  [ok |-> FALSE, uuid |-> NoUuid, title |-> <<>>, tags |-> <<>>,
   version |-> NoSemver, body |-> NoBody]

\* prompts.rs update_prompt_from_file lines 203-238: the fields parsed from
\* the two captures of FRONTMATTER_REGEX
ParseCaptures(captures) ==
  LET front == captures[1]
      uuid == UUID_REGEX(front)
      title == TITLE_REGEX(front)
      tags_str == TAGS_REGEX(front)
      version == VERSION_REGEX(front)
  IN IF captures = <<>> THEN NoDocument
     ELSE IF uuid = <<>> \/ title = <<>> THEN NoDocument
     ELSE [ok |-> TRUE,
           uuid |-> UuidOf(uuid[1]),
           title |-> title[1],
           tags |-> IF tags_str = <<>> THEN <<>> ELSE ParseTags(tags_str[1]),
           version |-> IF version = <<>> THEN V100 ELSE SemverOf(version[1]),
           body |-> Trim(captures[2])]

\* prompts.rs update_prompt_from_file lines 200-238: the parsed fields of a
\* file's content, ok being false where the function returns InvalidInput
ParseDocument(content) ==
  CHOOSE doc \in {ParseCaptures(captures) :
                    captures \in {FRONTMATTER_REGEX(content)}} : TRUE

WriteFile(fs, path, content) == (path :> content) @@ fs

RemoveFile(fs, path) == [q \in DOMAIN fs \ {path} |-> fs[q]]

Event(kind, path) == [kind |-> kind, path |-> path]

\* ------------------------------------------------------------- the commands
\* A command reads its uuids and timestamp before it asks for the connection
\* (pc "ready"); its arguments never change, so they are drawn where the
\* closure uses them.
Started(t, op) == [IdleCall EXCEPT !.pc = "ready", !.op = op, !.now = clock]

\* the callers are interchangeable: a new call takes the first idle one
FirstIdle(t) ==
  /\ call[t].pc = "idle"
  /\ t = "c1" \/ call["c1"].pc # "idle"

\* prompts.rs save_prompt lines 34-42: validation, uuids, timestamp
SavePromptStart(t) ==
  /\ FirstIdle(t)
  /\ budget > 0
  /\ budget' = budget - 1
  /\ Cardinality(DOMAIN prompts) +
       Cardinality({u \in Callers : call[u].op = "save_prompt"}) < MaxPrompts
  /\ call' = [call EXCEPT ![t] = Started(t, "save_prompt")]
  /\ clock' = clock + 1
  /\ UNCHANGED <<prompts, versions, saved, lock, files, queue, edits, fts>>

\* the rows a caller can know of: those committed
Committed == IF lock = Free THEN <<prompts, versions, fts>> ELSE saved

KnownPrompts == DOMAIN Committed[1]

KnownVersions == {Committed[2][i].uuid : i \in 1..Len(Committed[2])}

\* versions.rs save_new_version lines 209-222, for prompt p
SaveVersionStart(t, p) ==
  /\ FirstIdle(t)
  /\ budget > 0
  /\ budget' = budget - 1
  /\ call' = [call EXCEPT ![t] = [Started(t, "save_new_version") EXCEPT !.p = p]]
  /\ clock' = clock + 1
  /\ UNCHANGED <<prompts, versions, saved, lock, files, queue, edits, fts>>

\* a save_new_version that checks nothing
ValidBodyAny(body) == TRUE

ValidBody(body) ==
  /\ validate_prompt_content(body)
  /\ Trim(body) # <<>>
  /\ Len(body) <= MaxBodyLen

\* a body of more than 100,000 characters
RECURSIVE Repeat(_, _)
Repeat(ch, n) ==
  IF n = 0 THEN <<>>
  ELSE LET half == Repeat(ch, n \div 2)
       IN half \o half \o (IF n % 2 = 1 THEN <<ch>> ELSE <<>>)

LongBody == Repeat("x", MaxBodyLen + 1)

\* bodies save_new_version refuses: empty, blank, unsafe, too long
InvalidBodies == {<<>>, <<Space, Newline>>, <<"data:">>, LongBody}

\* the call of a command that fails before it reaches the database
Failed(op, kind) ==
  [IdleCall EXCEPT !.pc = "failed", !.op = op, !.out = Res(kind, NoSemver, NoUuid)]

\* versions.rs save_new_version lines 209-218: a body that fails the checks
\* is refused before the database is reached
SaveVersionReject(t, p, body) ==
  /\ FirstIdle(t)
  /\ budget > 0
  /\ budget' = budget - 1
  /\ ~ValidBody(body)
  /\ call' = [call EXCEPT ![t] = Failed("save_new_version", "InvalidInput")]
  /\ UNCHANGED <<prompts, versions, saved, lock, clock, files, queue, edits, fts>>

\* versions.rs rollback_to_version lines 511-528: no version row has the
\* uuid v
RollbackMissing(t, v) ==
  /\ FirstIdle(t)
  /\ budget > 0
  /\ budget' = budget - 1
  /\ lock = Free
  /\ FindVersion(versions, v) = {}
  /\ call' = [call EXCEPT ![t] = [Failed("rollback_to_version", "VersionNotFound")
                                    EXCEPT !.v = v]]
  /\ UNCHANGED <<prompts, versions, saved, lock, clock, files, queue, edits, fts>>

\* versions.rs rollback_to_version lines 511-536: the target version v is
\* read through with_connection, then the new uuid and timestamp are taken
RollbackStart(t, v) ==
  /\ FirstIdle(t)
  /\ budget > 0
  /\ budget' = budget - 1
  /\ lock = Free
  /\ \E i \in FindVersion(versions, v) :
       call' = [call EXCEPT ![t] =
         [Started(t, "rollback_to_version") EXCEPT
            !.v = v, !.p = versions[i].prompt_uuid, !.body = versions[i].body]]
  /\ clock' = clock + 1
  /\ UNCHANGED <<prompts, versions, saved, lock, files, queue, edits, fts>>

\* ------------------------------------------------- the full-text index
\* serde_json::to_string of the tags, the text of prompts.tags
RECURSIVE JsonItems(_)
JsonItems(tags) ==
  IF tags = <<>> THEN <<>>
  ELSE <<Quote>> \o EscapeDebug(Head(tags)) \o <<Quote>>
       \o (IF Len(tags) > 1 THEN <<",">> ELSE <<>>)
       \o JsonItems(Tail(tags))

JsonTags(tags) == <<"[">> \o JsonItems(tags) \o <<"]">>

\* database.rs lines 112, 126, 142: REPLACE(REPLACE(REPLACE(tags, '[', ''),
\* ']', ''), '"', '')
FtsTags(tags) ==
  SelectSeq(JsonTags(tags), LAMBDA ch : ch \notin {"[", "]", Quote})

\* a row of prompts_fts (database.rs lines 96-102), without its notes
FtsRow(uuid, title, body, tags) ==
  [uuid |-> uuid, title |-> title, body |-> body, tags |-> tags]

\* trigger fts_versions_insert (database.rs lines 105-116): one row for the
\* new version, if its prompt exists
fts_versions_insert(idx, ps, row) ==
  IF row.prompt_uuid \in DOMAIN ps
    THEN Append(idx, FtsRow(row.uuid, ps[row.prompt_uuid].title, row.body,
                            FtsTags(ps[row.prompt_uuid].tags)))
    ELSE idx

\* trigger fts_versions_update (database.rs lines 118-130)
fts_versions_update(idx, ps, row) ==
  fts_versions_insert(SelectSeq(idx, LAMBDA e : e.uuid # row.uuid), ps, row)

\* a prompts table without its update trigger
fts_prompts_update_none(idx, ps, vs, p) == idx

\* trigger fts_prompts_update (database.rs lines 138-144)
fts_prompts_update(idx, ps, vs, p) ==
  [k \in 1..Len(idx) |->
     IF \E i \in Rows(vs, p) : vs[i].uuid = idx[k].uuid
       THEN [idx[k] EXCEPT !.title = ps[p].title, !.tags = FtsTags(ps[p].tags)]
       ELSE idx[k]]

\* the rows of a table changed by the statements of a closure, fed to the
\* row triggers one after the other
RECURSIVE UpdatedVersions(_, _, _, _)
UpdatedVersions(idx, ps, vs0, vs1) ==
  LET U == {i \in 1..Len(vs0) : vs1[i] # vs0[i]}
  IN IF U = {} THEN idx
     ELSE LET i == CHOOSE j \in U : \A k \in U : j <= k
          IN UpdatedVersions(fts_versions_update(idx, ps, vs1[i]), ps,
                             [vs0 EXCEPT ![i] = vs1[i]], vs1)

RECURSIVE InsertedVersions(_, _, _, _)
InsertedVersions(idx, ps, vs1, n) ==
  IF n >= Len(vs1) THEN idx
  ELSE InsertedVersions(fts_versions_insert(idx, ps, vs1[n + 1]), ps, vs1, n + 1)

RECURSIVE UpdatedPrompts(_, _, _, _)
UpdatedPrompts(idx, ps, vs, P) ==
  IF P = {} THEN idx
  ELSE LET p == CHOOSE q \in P : TRUE
       IN UpdatedPrompts(fts_prompts_update(idx, ps, vs, p), ps, vs, P \ {p})

\* the index after a closure that made the tables ps1, vs1 of ps0, vs0.  A
\* closure inserts version rows after the prompt row they read (an INSERT
\* or UPDATE of the prompt precedes the INSERT of the version, or the later
\* UPDATE keeps title and tags), so that the triggers of the version rows
\* read the prompt as the closure leaves it.
Triggers(idx, ps0, vs0, ps1, vs1) ==
  UpdatedPrompts(
    InsertedVersions(UpdatedVersions(idx, ps1, vs0, vs1), ps1, vs1, Len(vs0)),
    ps1, vs1,
    {p \in DOMAIN ps0 \cap DOMAIN ps1 : ps1[p] # ps0[p]})

\* a with_transaction that runs its closure without locking the connection
TxRunUnlocked(t, c) ==
  /\ \E o \in Closure(prompts, versions, c) :
       /\ prompts' = o.prompts
       /\ versions' = o.versions
       /\ fts' = Triggers(fts, prompts, versions, o.prompts, o.versions)
       /\ call' = [call EXCEPT ![t] = [c EXCEPT !.pc = "tx", !.out = o.out]]
  /\ lock' = t
  /\ saved' = <<prompts, versions, fts>>
  /\ UNCHANGED <<clock, files, queue, edits, budget>>

\* database.rs with_transaction lines 191-198: lock the connection, begin,
\* run the closure of call c
TxRun(t, c) ==
  /\ lock = Free
  /\ \E o \in Closure(prompts, versions, c) :
       /\ prompts' = o.prompts
       /\ versions' = o.versions
       /\ fts' = Triggers(fts, prompts, versions, o.prompts, o.versions)
       /\ call' = [call EXCEPT ![t] = [c EXCEPT !.pc = "tx", !.out = o.out]]
  /\ lock' = t
  /\ saved' = <<prompts, versions, fts>>
  /\ UNCHANGED <<clock, files, queue, edits, budget>>

SavePromptTx(t, title, tags, content) ==
  /\ call[t].pc = "ready" /\ call[t].op = "save_prompt"
  /\ validate_prompt_input(title, content, tags)
  /\ TxRun(t, [call[t] EXCEPT !.p = call[t].now, !.title = title, !.tags = tags,
                              !.body = content])

\* the title and tags the closure reads from the prompts row
WithPrompt(c, p) ==
  IF p \in DOMAIN prompts
    THEN [c EXCEPT !.p = p, !.title = prompts[p].title, !.tags = prompts[p].tags]
    ELSE [c EXCEPT !.p = p]

SaveVersionTx(t, body) ==
  /\ call[t].pc = "ready" /\ call[t].op = "save_new_version"
  /\ ValidBody(body)
  /\ TxRun(t, [WithPrompt(call[t], call[t].p) EXCEPT !.body = body])

RollbackTx(t) ==
  /\ call[t].pc = "ready" /\ call[t].op = "rollback_to_version"
  /\ TxRun(t, WithPrompt(call[t], call[t].p))

\* a command that reads no clock of its own: its closure runs at once, the
\* UPDATE statements taking datetime('now') from the database
TxNow(t, c) ==
  /\ FirstIdle(t)
  /\ budget > 0
  /\ budget' = budget - 1
  /\ lock = Free
  /\ \E o \in Closure(prompts, versions, c) :
       /\ prompts' = o.prompts
       /\ versions' = o.versions
       /\ fts' = Triggers(fts, prompts, versions, o.prompts, o.versions)
       /\ call' = [call EXCEPT ![t] = [c EXCEPT !.pc = "tx", !.out = o.out]]
  /\ lock' = t
  /\ saved' = <<prompts, versions, fts>>
  /\ UNCHANGED <<clock, files, queue, edits>>

\* metadata.rs metadata_update lines 152-159: the payload is parsed and
\* validated, then the transaction is run
MetadataTx(t, v, payload) ==
  /\ validate(payload)
  /\ TxNow(t, [IdleCall EXCEPT !.op = "metadata_update", !.v = v,
                               !.meta = payload, !.now = clock])

\* categories.rs update_prompt_category lines 60-86
UpdateCategoryTx(t, p, path) ==
  TxNow(t, [IdleCall EXCEPT !.op = "update_prompt_category", !.p = p,
                            !.category = path, !.now = clock])

\* categories.rs rename_category lines 90-109: the checks before the
\* database, then the transaction
RenameTx(t, old_path, new_path) ==
  /\ old_path # Uncategorized
  /\ is_valid_category_path(new_path)
  /\ old_path # new_path
  /\ TxNow(t, [IdleCall EXCEPT !.op = "rename_category", !.old_path = old_path,
                               !.category = new_path, !.now = clock])

\* categories.rs rename_category lines 93-106: a rename of 'Uncategorized',
\* to an invalid path or to the same path is refused before the database
RenameReject(t, old_path, new_path) ==
  /\ FirstIdle(t)
  /\ budget > 0
  /\ budget' = budget - 1
  /\ old_path = Uncategorized \/ ~is_valid_category_path(new_path) \/ old_path = new_path
  /\ call' = [call EXCEPT ![t] = [Failed("rename_category", "InvalidInput")
                                    EXCEPT !.old_path = old_path, !.category = new_path]]
  /\ UNCHANGED <<prompts, versions, saved, lock, clock, files, queue, edits, fts>>

\* a transaction that keeps what a failed closure wrote
AfterTxNoRollback(out, cur, snap) == cur

\* what the connection holds once the transaction is over
AfterTx(out, cur, snap) == IF out.kind = "Ok" THEN cur ELSE snap

WritesFile(op) == op \in {"save_prompt", "save_new_version", "rollback_to_version"}

\* a with_transaction whose guard outlives the closure: the command writes
\* its mirror file with the connection still locked
TxEndKeepsLock(t) ==
  /\ call[t].pc = "tx"
  /\ lock = t
  /\ prompts' = AfterTx(call[t].out, prompts, saved[1])
  /\ versions' = AfterTx(call[t].out, versions, saved[2])
  /\ fts' = AfterTx(call[t].out, fts, saved[3])
  /\ saved' = <<<<>>, <<>>, <<>>>>
  /\ lock' = IF call[t].out.kind = "Ok" /\ WritesFile(call[t].op) THEN t ELSE Free
  /\ call' = [call EXCEPT ![t] =
       IF call[t].out.kind = "Ok" /\ WritesFile(call[t].op)
         THEN [IdleCall EXCEPT !.pc = "sync", !.op = call[t].op, !.p = call[t].p,
                 !.v = call[t].out.uuid,
                 !.title = call[t].title, !.tags = call[t].tags,
                 !.body = call[t].body, !.semver = call[t].out.semver]
         ELSE IdleCall]
  /\ UNCHANGED <<clock, files, queue, edits, budget>>

\* database.rs with_transaction lines 198-200: commit on Ok, drop the
\* transaction (roll back) on Err, unlock; a command that committed goes on
\* to write its mirror file
TxEnd(t) ==
  /\ call[t].pc = "tx"
  /\ lock = t
  /\ prompts' = AfterTx(call[t].out, prompts, saved[1])
  /\ versions' = AfterTx(call[t].out, versions, saved[2])
  /\ fts' = AfterTx(call[t].out, fts, saved[3])
  /\ saved' = <<<<>>, <<>>, <<>>>>
  /\ lock' = Free
  /\ call' = [call EXCEPT ![t] =
       IF call[t].out.kind = "Ok" /\ WritesFile(call[t].op)
         THEN [IdleCall EXCEPT !.pc = "sync", !.op = call[t].op, !.p = call[t].p,
                 !.v = call[t].out.uuid,
                 !.title = call[t].title, !.tags = call[t].tags,
                 !.body = call[t].body, !.semver = call[t].out.semver]
         ELSE IdleCall]
  /\ UNCHANGED <<clock, files, queue, edits, budget>>

\* the path and content of the mirror file of the call in c, written today
SyncPath(c) == PathOf(Today, c.title, c.semver)

SyncContent(c) ==
  create_markdown_content(c.p, c.title, c.body, c.semver, c.tags,
                          Today, Today)

\* versions.rs sync_version_to_file lines 113-122: the write is skipped when
\* the file holds the same content; prompts.rs save_prompt_file writes
\* without comparing
SkipsWrite(c, fs) ==
  /\ c.op # "save_prompt"
  /\ SyncPath(c) \in DOMAIN fs
  /\ fs[SyncPath(c)] = SyncContent(c)

\* versions.rs sync_version_to_file / prompts.rs save_prompt_file: the mirror
\* file is written and the write is seen by the watcher
SyncFile(t) ==
  /\ call[t].pc = "sync"
  /\ IF SkipsWrite(call[t], files)
       THEN UNCHANGED <<files, queue>>
       ELSE /\ files' = WriteFile(files, SyncPath(call[t]), SyncContent(call[t]))
            /\ queue' = Append(queue, Event("Write", SyncPath(call[t])))
  /\ call' = [call EXCEPT ![t] = IdleCall]
  /\ UNCHANGED <<prompts, versions, saved, lock, clock, edits, budget, fts>>

\* what the command reports to its caller when the mirror write has failed:
\* save_prompt propagates the error with `?`, save_new_version and
\* rollback_to_version log it and return the version
Reported(c) ==
  IF c.op = "save_prompt" THEN Res("Io", NoSemver, NoUuid)
  ELSE Res("Ok", c.semver, c.v)

\* a command that answers a failed mirror write by deleting the version it
\* has committed
SyncFileFailsUndo(t) ==
  /\ call[t].pc = "sync"
  /\ ~SkipsWrite(call[t], files)
  /\ lock = Free
  /\ LET keep(r) == r.uuid # call[t].v
     IN versions' = SelectSeq(versions, keep)
  /\ call' = [call EXCEPT ![t] = [call[t] EXCEPT !.pc = "done", !.out = Reported(call[t])]]
  /\ UNCHANGED <<prompts, saved, lock, clock, edits, budget, files, queue, fts>>

\* the same, the write failing with an I/O error: nothing is written, and
\* the command returns (pc "done", out the result its caller gets)
SyncFileFails(t) ==
  /\ call[t].pc = "sync"
  /\ ~SkipsWrite(call[t], files)
  /\ call' = [call EXCEPT ![t] = [call[t] EXCEPT !.pc = "done", !.out = Reported(call[t])]]
  /\ UNCHANGED <<prompts, versions, saved, lock, clock, edits, budget, files, queue, fts>>

\* the caller has the result
Return(t) ==
  /\ call[t].pc \in {"done", "failed"}
  /\ call' = [call EXCEPT ![t] = IdleCall]
  /\ UNCHANGED <<prompts, versions, saved, lock, clock, edits, budget, files, queue, fts>>

\* -------------------------------------------------------------- the watcher
\* prompts.rs update_prompt_from_file lines 190-237: fs::read_to_string and
\* the parse; a file that is not there is an error as well
ReadDocument(fs, path) ==
  IF path \in DOMAIN fs THEN ParseDocument(fs[path]) ELSE NoDocument

\* a watcher whose thread ends at the first file it cannot import
WatcherImportStartStops ==
  /\ call[WatcherId].pc = "idle"
  /\ queue # <<>>
  /\ Head(queue).kind = "Write"
  /\ queue' = Tail(queue)
  /\ \E doc \in {ReadDocument(files, Head(queue).path)} :
       IF doc.ok /\ validate_prompt_input(doc.title, doc.body, doc.tags)
         THEN /\ call' = [call EXCEPT ![WatcherId] =
                   [IdleCall EXCEPT !.pc = "ready", !.op = "import",
                      !.p = doc.uuid, !.title = doc.title, !.tags = doc.tags,
                      !.semver = doc.version, !.body = doc.body,
                      !.now = clock, !.path = Head(queue).path]]
              /\ clock' = clock + 1
         ELSE /\ call' = [call EXCEPT ![WatcherId] = [IdleCall EXCEPT !.pc = "stopped"]]
              /\ UNCHANGED clock
  /\ UNCHANGED <<prompts, versions, saved, lock, files, edits, budget, fts>>

\* a watcher that turns to the next event before it has imported the file
\* of the previous one
WatcherImportStartEarly ==
  /\ call[WatcherId].pc \in {"idle", "ready"}
  /\ queue # <<>>
  /\ Head(queue).kind = "Write"
  /\ queue' = Tail(queue)
  /\ \E doc \in {ReadDocument(files, Head(queue).path)} :
       IF doc.ok /\ validate_prompt_input(doc.title, doc.body, doc.tags)
         THEN /\ call' = [call EXCEPT ![WatcherId] =
                   [IdleCall EXCEPT !.pc = "ready", !.op = "import",
                      !.p = doc.uuid, !.title = doc.title, !.tags = doc.tags,
                      !.semver = doc.version, !.body = doc.body,
                      !.now = clock, !.path = Head(queue).path]]
              /\ clock' = clock + 1
         ELSE UNCHANGED <<call, clock>>
  /\ UNCHANGED <<prompts, versions, saved, lock, files, edits, budget, fts>>

\* watcher.rs lines 78-87 with prompts.rs update_prompt_from_file lines
\* 190-243: the next Write/Create event; the file is read and parsed, the
\* parsed fields validated, the timestamp taken
WatcherImportStart ==
  /\ call[WatcherId].pc = "idle"
  /\ queue # <<>>
  /\ Head(queue).kind = "Write"
  /\ queue' = Tail(queue)
  /\ \E doc \in {ReadDocument(files, Head(queue).path)} :
       IF doc.ok /\ validate_prompt_input(doc.title, doc.body, doc.tags)
         THEN /\ call' = [call EXCEPT ![WatcherId] =
                   [IdleCall EXCEPT !.pc = "ready", !.op = "import",
                      !.p = doc.uuid, !.title = doc.title, !.tags = doc.tags,
                      !.semver = doc.version, !.body = doc.body,
                      !.now = clock, !.path = Head(queue).path]]
              /\ clock' = clock + 1
         ELSE UNCHANGED <<call, clock>>
  /\ UNCHANGED <<prompts, versions, saved, lock, files, edits, budget, fts>>

\* prompts.rs update_prompt_from_file lines 245-285
WatcherImportTx ==
  /\ call[WatcherId].pc = "ready" /\ call[WatcherId].op = "import"
  /\ TxRun(WatcherId, call[WatcherId])

\* prompts.rs recreate_prompt_file lines 319-409: the rows the two queries
\* can yield for the semver and slug of the deleted file's name
RecreateMatches(ps, vs, slug, semver) ==
  LET J == {i \in 1..Len(vs) : vs[i].semver = semver /\ vs[i].prompt_uuid \in DOMAIN ps}
      first == {i \in J : \A j \in J : vs[j].created_at <= vs[i].created_at}
  IN IF \E i \in first : Slug(ps[vs[i].prompt_uuid].title) = slug
       THEN {i \in first : Slug(ps[vs[i].prompt_uuid].title) = slug}
       ELSE {i \in J : Slug(ps[vs[i].prompt_uuid].title) = slug}

\* a watcher that answers a Remove event by deleting the versions of the
\* file's semver
WatcherRemovePurge ==
  /\ call[WatcherId].pc = "idle"
  /\ queue # <<>>
  /\ Head(queue).kind = "Remove"
  /\ lock = Free
  /\ queue' = Tail(queue)
  /\ LET keep(r) == r.semver # Head(queue).path.semver
     IN versions' = SelectSeq(versions, keep)
  /\ UNCHANGED <<prompts, saved, lock, clock, call, files, edits, budget, fts>>

\* watcher.rs lines 125-137 with prompts.rs recreate_prompt_file lines
\* 295-409: the next Remove event; the name is matched and the record looked
\* up through with_connection
WatcherRemoveStart ==
  /\ call[WatcherId].pc = "idle"
  /\ queue # <<>>
  /\ Head(queue).kind = "Remove"
  /\ lock = Free
  /\ queue' = Tail(queue)
  /\ LET path == Head(queue).path
         M == IF parse_semver(path.semver) /\ path.slug # <<>>
                THEN RecreateMatches(prompts, versions, path.slug, path.semver)
                ELSE {}
     IN IF M = {}
          THEN UNCHANGED call
          ELSE \E i \in M :
                 call' = [call EXCEPT ![WatcherId] =
                   [IdleCall EXCEPT !.pc = "recreate", !.op = "recreate",
                      !.p = versions[i].prompt_uuid,
                      !.title = prompts[versions[i].prompt_uuid].title,
                      !.tags = prompts[versions[i].prompt_uuid].tags,
                      !.body = versions[i].body, !.semver = path.semver,
                      !.now = versions[i].created_at, !.path = path]]
  /\ UNCHANGED <<prompts, versions, saved, lock, clock, files, edits, budget, fts>>

\* prompts.rs recreate_prompt_file lines 411-470: the file is written under
\* the date of the version's created_at, without comparing
WatcherRecreate ==
  /\ call[WatcherId].pc = "recreate"
  /\ LET c == call[WatcherId]
         path == PathOf(DateOf(c.now), c.title, c.semver)
         content == create_markdown_content(c.p, c.title, c.body, c.semver,
                                            c.tags, DateOf(c.now), Today)
     IN /\ files' = WriteFile(files, path, content)
        /\ queue' = Append(queue, Event("Write", path))
  /\ call' = [call EXCEPT ![WatcherId] = IdleCall]
  /\ UNCHANGED <<prompts, versions, saved, lock, clock, edits, budget, fts>>

\* the same, create_dir_all or the write failing with an I/O error: the
\* watcher logs the error (watcher.rs lines 134-136)
WatcherRecreateFails ==
  /\ call[WatcherId].pc = "recreate"
  /\ call' = [call EXCEPT ![WatcherId] = IdleCall]
  /\ UNCHANGED <<prompts, versions, saved, lock, clock, edits, budget, files, queue, fts>>

\* ---------------------------------------------------------- the environment
Payloads ==
  {Metadata(<<TitleB>>, <<>>, <<>>, <<>>, <<>>, <<>>),
   Metadata(<<>>, <<>>, <<>>, <<>>, <<<<"n">>>>, <<>>)}

EditSemvers == {<<1, 0, 0>>, <<1, 0, 1>>, <<1, 0, 2>>}

\* the document a user makes of a mirror file by editing it today: the
\* uuid kept, a title with its tags, a body and a declared version
Edited(content, title, body, version) ==
  create_markdown_content(ParseDocument(content).uuid, title, body, version,
                          TagsOf(title), Today, Today)

\* a user edits a mirror file in place
ExternalEdit(path, title, body, version) ==
  /\ edits > 0
  /\ path \in DOMAIN files
  /\ \E content \in {Edited(files[path], title, body, version)} :
       /\ content # files[path]
       /\ files' = WriteFile(files, path, content)
  /\ queue' = Append(queue, Event("Write", path))
  /\ edits' = edits - 1
  /\ UNCHANGED <<prompts, versions, saved, lock, clock, call, budget, fts>>

\* a user deletes a mirror file
ExternalDelete(path) ==
  /\ edits > 0
  /\ path \in DOMAIN files
  /\ files' = RemoveFile(files, path)
  /\ queue' = Append(queue, Event("Remove", path))
  /\ edits' = edits - 1
  /\ UNCHANGED <<prompts, versions, saved, lock, clock, call, budget, fts>>

\* the commands alone: the callers, their transactions and mirror writes
NextCommands ==
  \/ \E t \in Callers : SavePromptStart(t)
  \/ \E t \in Callers, title \in Titles, content \in CreateBodies :
        SavePromptTx(t, title, TagsOf(title), content)
  \/ \E t \in Callers, p \in KnownPrompts \cup {UnknownUuid} : SaveVersionStart(t, p)
  \/ \E t \in Callers, body \in Bodies : SaveVersionTx(t, body)
  \/ \E t \in Callers, v \in KnownVersions : RollbackStart(t, v)
  \/ \E t \in Callers : RollbackTx(t)
  \/ \E t \in Callers : TxEnd(t)
  \/ \E t \in Callers : SyncFile(t)

SpecCommands == InitCommands /\ [][NextCommands]_vars

Next ==
  \/ \E t \in Callers : SavePromptStart(t)
  \/ \E t \in Callers, title \in Titles, content \in CreateBodies :
        SavePromptTx(t, title, TagsOf(title), content)
  \/ \E t \in Callers, p \in KnownPrompts \cup {UnknownUuid} : SaveVersionStart(t, p)
  \/ \E t \in Callers, body \in Bodies : SaveVersionTx(t, body)
  \/ \E t \in Callers, v \in KnownVersions : RollbackStart(t, v)
  \/ \E t \in Callers : RollbackTx(t)
  \/ \E t \in Callers, v \in KnownVersions \cup {UnknownUuid}, payload \in Payloads :
        MetadataTx(t, v, payload)
  \/ \E t \in Callers, p \in KnownPrompts \cup {UnknownUuid}, path \in CategoryPaths :
        UpdateCategoryTx(t, p, path)
  \/ \E t \in Threads : TxEnd(t)
  \/ \E t \in Callers : SyncFile(t)
  \/ \E t \in Callers : SyncFileFails(t)
  \/ \E t \in Callers : Return(t)
  \/ WatcherImportStart
  \/ WatcherImportTx
  \/ WatcherRemoveStart
  \/ WatcherRecreate
  \/ WatcherRecreateFails
  \/ \E path \in DOMAIN files, title \in Titles, body \in EditBodies,
        version \in EditSemvers :
        ExternalEdit(path, title, body, version)
  \/ \E path \in DOMAIN files : ExternalDelete(path)

Spec == Init /\ [][Next]_vars

\* ------------------------------------------------- the mirror round trip
\* save_prompt has committed a prompt and is about to write its mirror file;
\* the watcher then reads the file.  The inputs are those createPrompt
\* accepts.
RtTitles == {TitleA, TitleB, <<"A", Quote, "b">>, <<"a", ",">>, <<"[", "a", "]">>}

RtTagLists ==
  {<<>>, <<<<"t">>>>, <<<<"t">>, <<"u">>>>, <<<<"t", ",", "u">>>>,
   <<<<"t", "]">>>>, <<<<"t", Quote, "u">>>>}

RtBodies == {B0, B2, <<Space, "y">>, <<"h", Newline, "w">>}

RtUuids == {1, 12}

InitMirror ==
  \E title \in RtTitles, tags \in RtTagLists, body \in RtBodies, u \in RtUuids :
    /\ validate_prompt_input(title, body, tags)
    /\ \E o \in SavePromptClosure(<<>>, <<>>,
                  [IdleCall EXCEPT !.title = title, !.tags = tags, !.body = body,
                                   !.now = u]) :
         /\ o.out.kind = "Ok"
         /\ prompts = o.prompts
         /\ versions = o.versions
         /\ fts = Triggers(<<>>, <<>>, <<>>, o.prompts, o.versions)
    /\ call = [t \in Threads |->
                 IF t = "c1"
                   THEN [IdleCall EXCEPT !.pc = "sync", !.op = "save_prompt",
                           !.p = u, !.v = u, !.title = title, !.tags = tags,
                           !.body = body, !.semver = V100]
                   ELSE IdleCall]
    /\ clock = u + 1
    /\ saved = <<<<>>, <<>>, <<>>>>
    /\ lock = Free
    /\ files = <<>>
    /\ queue = <<>>
    /\ edits = 0
    /\ budget = 0

NextMirror ==
  \/ SyncFile("c1")
  \/ WatcherImportStart

SpecMirror == InitMirror /\ [][NextMirror]_vars

\* ------------------------------------------- the watcher and a busy user
\* one createPrompt, then a user who edits or deletes mirror files
\* SerialEdits times while the watcher works through its channel
SerialEdits == 2

InitWatcher == InitOf(1, SerialEdits)

NextWatcher ==
  \/ \E t \in Callers : SavePromptStart(t)
  \/ \E t \in Callers, title \in Titles, content \in CreateBodies :
        SavePromptTx(t, title, TagsOf(title), content)
  \/ \E t \in Threads : TxEnd(t)
  \/ \E t \in Callers : SyncFile(t)
  \/ \E t \in Callers : SyncFileFails(t)
  \/ \E t \in Callers : Return(t)
  \/ WatcherImportStart
  \/ WatcherImportTx
  \/ WatcherRemoveStart
  \/ WatcherRecreate
  \/ WatcherRecreateFails
  \/ \E path \in DOMAIN files, title \in Titles, body \in EditBodies,
        version \in EditSemvers :
        ExternalEdit(path, title, body, version)
  \/ \E path \in DOMAIN files : ExternalDelete(path)

SpecWatcher == InitWatcher /\ [][NextWatcher]_vars

\* ------------------------------------------------------ metadata updates
\* MetadataCalls commands, among them metadata_update with payloads that
\* pass PromptMetadata::validate and payloads that fail it
MetadataCalls == 3

AngleTag == <<"<", "b", ">">>

LongTitle == Repeat("x", MaxTitleLen + 1)

LongTag == Repeat("x", MetaMaxTagLen + 1)

ManyTags == [i \in 1..(MetaMaxTags + 1) |-> <<"t">>]

\* payloads that pass validate: a title, a tag with angle brackets, notes
ValidPayloads ==
  {Metadata(<<TitleB>>, <<>>, <<>>, <<>>, <<>>, <<>>),
   Metadata(<<>>, <<<<AngleTag>>>>, <<>>, <<>>, <<>>, <<>>),
   Metadata(<<>>, <<>>, <<>>, <<>>, <<<<"n">>>>, <<>>)}

\* payloads with a title or tags out of limits
BadTitlesAndTags ==
  {Metadata(<<<<>>>>, <<>>, <<>>, <<>>, <<>>, <<>>),
   Metadata(<<LongTitle>>, <<>>, <<>>, <<>>, <<>>, <<>>),
   Metadata(<<>>, <<ManyTags>>, <<>>, <<>>, <<>>, <<>>),
   Metadata(<<>>, <<<<<<>>>>>>, <<>>, <<>>, <<>>, <<>>),
   Metadata(<<>>, <<<<LongTag>>>>, <<>>, <<>>, <<>>, <<>>)}

\* payloads whose title and tags are within limits and that validate
\* refuses all the same: a blank title, a blank tag, a category path with a
\* control character or too long, notes too long
OtherBadPayloads ==
  {Metadata(<<<<Space>>>>, <<>>, <<>>, <<>>, <<>>, <<>>),
   Metadata(<<>>, <<<<<<Space>>>>>>, <<>>, <<>>, <<>>, <<>>),
   Metadata(<<TitleA>>, <<>>, <<>>, <<<<"c", Tab>>>>, <<>>, <<>>),
   Metadata(<<TitleA>>, <<>>, <<>>, <<Repeat("c", MetaMaxPathLen + 1)>>, <<>>, <<>>),
   Metadata(<<TitleA>>, <<>>, <<>>, <<>>, <<Repeat("n", MetaMaxNotesLen + 1)>>, <<>>)}

AllPayloads == ValidPayloads \cup BadTitlesAndTags \cup OtherBadPayloads

\* metadata.rs metadata_update lines 152-155: a payload that fails validate
\* is refused before the database is reached
MetadataReject(t, v, payload) ==
  /\ FirstIdle(t)
  /\ budget > 0
  /\ budget' = budget - 1
  /\ ~validate(payload)
  /\ call' = [call EXCEPT ![t] = [Failed("metadata_update", "Validation")
                                    EXCEPT !.v = v, !.meta = payload]]
  /\ UNCHANGED <<prompts, versions, saved, lock, clock, files, queue, edits, fts>>

InitMetadata == InitOf(MetadataCalls, 0)

NextMetadata ==
  \/ \E t \in Callers : SavePromptStart(t)
  \/ \E t \in Callers, title \in Titles, content \in CreateBodies :
        SavePromptTx(t, title, TagsOf(title), content)
  \/ \E t \in Callers, v \in KnownVersions \cup {UnknownUuid}, payload \in AllPayloads :
        MetadataTx(t, v, payload)
  \/ \E t \in Callers, v \in KnownVersions \cup {UnknownUuid}, payload \in AllPayloads :
        MetadataReject(t, v, payload)
  \/ \E t \in Callers : TxEnd(t)
  \/ \E t \in Callers : SyncFile(t)
  \/ \E t \in Callers : Return(t)

SpecMetadata == InitMetadata /\ [][NextMetadata]_vars

\* ----------------------------------------------------- merging metadata
\* MergeCalls calls of merge_with on one metadata object, the objects and
\* the updates drawn from MergeInputs: every field absent or present, the
\* tag list also present and empty
MergeCalls == 2

MergeInputs ==
  {Metadata(title, tags, models, category_path, notes, custom_fields) :
     title \in {<<>>, <<TitleA>>, <<TitleB>>},
     tags \in {<<>>, <<<<>>>>, <<<<<<"t">>>>>>},
     models \in {<<>>, <<<<<<"m">>>>>>},
     category_path \in {<<>>, Uncategorized},
     notes \in {<<>>, <<<<"n">>>>},
     custom_fields \in {<<>>, <<<<"k">>>>}}

\* base.merge_with(&update): base is the metadata of call c1 and is changed
\* in place, update is kept as the metadata of call c2
MergeWith(update) ==
  /\ budget > 0
  /\ budget' = budget - 1
  /\ call' = [call EXCEPT
       !["c1"] = [@ EXCEPT !.pc = "done", !.op = "merge_with",
                           !.meta = merge_with(@, update)],
       !["c2"] = [@ EXCEPT !.meta = update]]
  /\ UNCHANGED <<prompts, versions, saved, lock, clock, files, queue, edits, fts>>

InitMerge ==
  /\ budget = MergeCalls
  /\ prompts = <<>>
  /\ versions = <<>>
  /\ fts = <<>>
  /\ saved = <<<<>>, <<>>, <<>>>>
  /\ lock = Free
  /\ clock = 1
  /\ files = <<>>
  /\ queue = <<>>
  /\ edits = 0
  /\ \E base \in MergeInputs :
       call = [t \in Threads |-> IF t = "c1" THEN [IdleCall EXCEPT !.meta = base]
                                             ELSE IdleCall]

NextMerge == \E update \in MergeInputs : MergeWith(update)

SpecMerge == InitMerge /\ [][NextMerge]_vars

\* ------------------------------------------ saves that race with an import
\* RaceCalls commands and one user edit that declares the version
\* EditedVersion, the watcher importing it while callers save
RaceCalls == 3

EditedVersion == <<2, 0, 0>>

InitRace == InitOf(RaceCalls, 1)

NextRace ==
  \/ \E t \in Callers : SavePromptStart(t)
  \/ \E t \in Callers : SavePromptTx(t, TitleA, TagsOf(TitleA), B0)
  \/ \E t \in Callers, p \in KnownPrompts : SaveVersionStart(t, p)
  \/ \E t \in Callers, body \in {B1, B3} : SaveVersionTx(t, body)
  \/ \E t \in Threads : TxEnd(t)
  \/ \E t \in Callers : SyncFile(t)
  \/ WatcherImportStart
  \/ WatcherImportTx
  \/ \E path \in DOMAIN files : ExternalEdit(path, TitleA, B2, EditedVersion)

SpecRace == InitRace /\ [][NextRace]_vars

\* ------------------------------------- the watcher and the core's own files
\* OwnCalls commands and one deletion of a mirror file by the user: every
\* file is one the core has written, by a command or by a regeneration
OwnCalls == 2

InitOwn == InitOf(OwnCalls, 1)

\* the steps of the watcher thread after it has taken an event
WatcherNext ==
  \/ WatcherImportTx
  \/ WatcherRemoveStart
  \/ WatcherRecreate
  \/ TxEnd(WatcherId)

\* WatcherImportStart is enabled: the watcher is idle and a Write event is
\* the next in the channel
ImportPending ==
  call[WatcherId].pc = "idle" /\ queue # <<>> /\ Head(queue).kind = "Write"

\* weak fairness of WatcherImportStart, its enabling condition written out:
\* the idle watcher takes the next Write event from the channel
WatcherImportFair ==
  \/ []<>(~ImportPending)
  \/ []<><<ImportPending /\ queue' = Tail(queue)>>_vars

NextOwn ==
  \/ \E t \in Callers : SavePromptStart(t)
  \/ \E t \in Callers, title \in Titles, content \in CreateBodies :
        SavePromptTx(t, title, TagsOf(title), content)
  \/ \E t \in Callers, p \in KnownPrompts : SaveVersionStart(t, p)
  \/ \E t \in Callers, body \in Bodies : SaveVersionTx(t, body)
  \/ \E t \in Callers, v \in KnownVersions : RollbackStart(t, v)
  \/ \E t \in Callers : RollbackTx(t)
  \/ \E t \in Callers : TxEnd(t)
  \/ \E t \in Callers : SyncFile(t)
  \/ WatcherImportStart
  \/ WatcherNext
  \/ \E path \in DOMAIN files : ExternalDelete(path)

\* the watcher thread keeps running (watcher.rs lines 33-40, the loop over
\* the channel), and the lock is released when a closure returns
\* (database.rs lines 186-201)
SpecOwn ==
  /\ InitOwn
  /\ [][NextOwn]_vars
  /\ WatcherImportFair
  /\ WF_vars(WatcherNext)
  /\ WF_vars(\E t \in Callers : TxEnd(t))

\* ------------------------------------------- documents that are refused
\* one createPrompt, then a user who overwrites the mirror file DroppedEdits
\* times, with documents update_prompt_from_file refuses or with a good one
DroppedEdits == 2

\* a document of the first prompt that declares version 1.0.1
DocumentOf(title, tags, body) ==
  create_markdown_content(1, title, body, <<1, 0, 1>>, tags, 0, 0)

\* documents without front matter, without uuid field, without title field
MalformedDocuments ==
  {<<"h">>,
   <<"---", Newline, "title: ", Quote, "a", Quote, Newline, "---", Newline, Newline, "h">>,
   <<"---", Newline, "uuid: ", Quote, "1", Quote, Newline, "---", Newline, Newline, "h">>}

\* well-formed documents whose title, tags or body fail validate_prompt_input
InvalidDocuments ==
  {DocumentOf(<<"<", "b", ">">>, <<>>, B1),
   DocumentOf(<<Space>>, <<>>, B1),
   DocumentOf(TitleB, <<AngleTag>>, B1),
   DocumentOf(TitleB, <<>>, <<>>),
   DocumentOf(TitleB, <<>>, <<"data:">>)}

GoodDocuments == {DocumentOf(TitleB, TagsOf(TitleB), B1)}

\* a user overwrites a mirror file with a document of their own
ExternalWrite(path, content) ==
  /\ edits > 0
  /\ path \in DOMAIN files
  /\ content # files[path]
  /\ files' = WriteFile(files, path, content)
  /\ queue' = Append(queue, Event("Write", path))
  /\ edits' = edits - 1
  /\ UNCHANGED <<prompts, versions, saved, lock, clock, call, budget, fts>>

InitDropped == InitOf(1, DroppedEdits)

NextDropped ==
  \/ \E t \in Callers : SavePromptStart(t)
  \/ \E t \in Callers : SavePromptTx(t, TitleA, TagsOf(TitleA), B0)
  \/ \E t \in Threads : TxEnd(t)
  \/ \E t \in Callers : SyncFile(t)
  \/ WatcherImportStart
  \/ WatcherImportTx
  \/ \E path \in DOMAIN files,
        content \in MalformedDocuments \cup InvalidDocuments \cup GoodDocuments :
          ExternalWrite(path, content)

SpecDropped == InitDropped /\ [][NextDropped]_vars

\* ------------------------------------------------------------ categories
\* CategoryCalls commands: prompts are created, put into categories and the
\* categories renamed
CategoryCalls == 5

\* "a", "a/b", "ab", "x"
CatA == <<"a">>
CatAB == <<"a", "/", "b">>
CatAb == <<"a", "b">>
CatX == <<"x">>

InitCategories == InitOf(CategoryCalls, 0)

NextCategories ==
  \/ \E t \in Callers : SavePromptStart(t)
  \/ \E t \in Callers : SavePromptTx(t, TitleA, TagsOf(TitleA), B0)
  \/ \E t \in Callers, p \in KnownPrompts, path \in {CatA, CatAB, CatAb} :
        UpdateCategoryTx(t, p, path)
  \/ \E t \in Callers, old_path \in {CatA, Uncategorized}, new_path \in {CatX, CatA, CatAb, <<"<">>} :
        RenameTx(t, old_path, new_path)
  \/ \E t \in Callers, old_path \in {CatA, Uncategorized}, new_path \in {CatX, CatA, CatAb, <<"<">>} :
        RenameReject(t, old_path, new_path)
  \/ \E t \in Callers : TxEnd(t)
  \/ \E t \in Callers : SyncFile(t)
  \/ \E t \in Callers : Return(t)

SpecCategories == InitCategories /\ [][NextCategories]_vars

\* ------------------------------------------------------ the category tree
\* the byte of a character of a category path
Ascii(ch) ==
  CASE ch = "/" -> 47
    [] ch = "Uncategorized" -> 85
    [] ch = "a" -> 97
    [] ch = "b" -> 98
    [] ch = "c" -> 99
    [] OTHER -> 120

\* str::cmp: a < b byte by byte
StrLess(a, b) ==
  TextLess([i \in 1..Len(a) |-> Ascii(a[i])], [i \in 1..Len(b) |-> Ascii(b[i])])

\* [&str]::join
RECURSIVE Join(_, _)
Join(parts, sep) ==
  IF parts = <<>> THEN <<>>
  ELSE IF Len(parts) = 1 THEN parts[1]
  ELSE parts[1] \o <<sep>> \o Join(Tail(parts), sep)

\* the texts of a set in ascending order
RECURSIVE Ascending(_)
Ascending(texts) ==
  IF texts = {} THEN <<>>
  ELSE LET least == CHOOSE a \in texts : \A b \in texts \ {a} : StrLess(a, b)
       IN <<least>> \o Ascending(texts \ {least})

\* categories.rs get_category_tree lines 27-46: SELECT category_path,
\* COUNT(*) FROM prompts GROUP BY category_path ORDER BY category_path
CategoryCounts(ps) ==
  LET paths == Ascending({ps[p].category_path : p \in DOMAIN ps})
  IN [i \in 1..Len(paths) |->
        [category_path |-> paths[i],
         count |-> Cardinality({p \in DOMAIN ps : ps[p].category_path = paths[i]})]]

\* categories.rs build_tree_from_paths lines 226-247, the first pass: a
\* node for every path and every prefix of it, with the count of the path's
\* last row, or 0
FirstPass(category_counts) ==
  LET Parts(i) == Split(category_counts[i].category_path, "/")
      Keys == {Join(SubSeq(Parts(i), 1, n), "/") :
                 <<i, n>> \in {<<i, n>> \in (1..Len(category_counts)) \X (1..5) :
                                 n <= Len(Parts(i))}}
      RowsOf(k) == {i \in 1..Len(category_counts) : category_counts[i].category_path = k}
      LastOf(k) == CHOOSE i \in RowsOf(k) : \A j \in RowsOf(k) : j <= i
  IN [k \in Keys |->
        [path |-> k,
         name |-> Split(k, "/")[Len(Split(k, "/"))],
         children |-> <<>>,
         count |-> IF RowsOf(k) = {} THEN 0 ELSE category_counts[LastOf(k)].count]]

\* the orders in which a HashMap with these keys may be iterated
IterationOrders(keys) ==
  {order \in [1..Cardinality(keys) -> keys] :
     \A i, j \in 1..Cardinality(keys) : order[i] = order[j] => i = j}

\* categories.rs build_tree_from_paths lines 251-262: (parent, child) for
\* every key of more than one part, in the order of the iteration
RECURSIVE ChildrenToMove(_)
ChildrenToMove(order) ==
  IF order = <<>> THEN <<>>
  ELSE LET parts == Split(Head(order), "/")
       IN (IF Len(parts) > 1
             THEN <<<<Join(SubSeq(parts, 1, Len(parts) - 1), "/"), Head(order)>>>>
             ELSE <<>>) \o ChildrenToMove(Tail(order))

\* categories.rs build_tree_from_paths lines 264-271: the child is taken
\* out of the map as it is now, and pushed to its parent when the parent is
\* still in the map
RECURSIVE MoveChildren(_, _)
MoveChildren(path_map, children_to_move) ==
  IF children_to_move = <<>> THEN path_map
  ELSE LET parent_path == children_to_move[1][1]
           child_path == children_to_move[1][2]
           removed == [k \in DOMAIN path_map \ {child_path} |-> path_map[k]]
       IN IF child_path \notin DOMAIN path_map
            THEN MoveChildren(path_map, Tail(children_to_move))
          ELSE IF parent_path \in DOMAIN removed
            THEN MoveChildren([removed EXCEPT ![parent_path].children =
                                                Append(@, path_map[child_path])],
                              Tail(children_to_move))
          ELSE MoveChildren(removed, Tail(children_to_move))

\* categories.rs calculate_total_counts
RECURSIVE calculate_total_counts(_)
RECURSIVE TotalCounts(_)
TotalCounts(nodes) ==
  [i \in 1..Len(nodes) |-> calculate_total_counts(nodes[i])]

RECURSIVE SumCounts(_)
SumCounts(nodes) ==
  IF nodes = <<>> THEN 0 ELSE Head(nodes).count + SumCounts(Tail(nodes))

calculate_total_counts(node) ==
  LET children == TotalCounts(node.children)
  IN [node EXCEPT !.children = children, !.count = node.count + SumCounts(children)]

\* slice::sort_by(|a, b| a.name.cmp(&b.name)), a stable sort
RECURSIVE SortByName(_)
SortByName(nodes) ==
  IF nodes = <<>> THEN <<>>
  ELSE LET i == CHOOSE i \in 1..Len(nodes) :
                  /\ \A j \in 1..Len(nodes) : ~StrLess(nodes[j].name, nodes[i].name)
                  /\ \A j \in 1..(i - 1) : StrLess(nodes[i].name, nodes[j].name)
       IN <<nodes[i]>> \o SortByName(SubSeq(nodes, 1, i - 1) \o SubSeq(nodes, i + 1, Len(nodes)))

\* categories.rs sort_children
RECURSIVE sort_children(_)
sort_children(nodes) ==
  [i \in 1..Len(nodes) |->
     [nodes[i] EXCEPT !.children = sort_children(SortByName(nodes[i].children))]]

\* categories.rs build_tree_from_paths, with the map iterated in this order
build_tree_from_paths(category_counts, order) ==
  LET path_map == MoveChildren(FirstPass(category_counts), ChildrenToMove(order))
      roots == TotalCounts([i \in 1..Cardinality(DOMAIN path_map) |->
                              path_map[Ascending(DOMAIN path_map)[i]]])
  IN sort_children(SortByName(roots))

\* categories.rs get_category_tree: the counts are read under the
\* connection's lock, the tree is built from them
GetCategoryTree(t) ==
  /\ FirstIdle(t)
  /\ budget > 0
  /\ lock = Free
  /\ budget' = budget - 1
  /\ \E category_counts \in {CategoryCounts(prompts)} :
       \E order \in IterationOrders(DOMAIN FirstPass(category_counts)) :
          call' = [call EXCEPT ![t] =
                     [IdleCall EXCEPT !.pc = "done", !.op = "get_category_tree",
                                      !.out = Res("Ok", NoSemver, NoUuid),
                                      !.counts = category_counts,
                                      !.tree = build_tree_from_paths(category_counts, order)]]
  /\ UNCHANGED <<prompts, versions, saved, lock, clock, files, queue, edits, fts>>

\* TreeCalls commands: prompts are created and put into categories of up to
\* three levels, and the tree is asked for
TreeCalls == 5

CatABC == <<"a", "/", "b", "/", "c">>

InitTree == InitOf(TreeCalls, 0)

NextTree ==
  \/ \E t \in Callers : SavePromptStart(t)
  \/ \E t \in Callers : SavePromptTx(t, TitleA, TagsOf(TitleA), B0)
  \/ \E t \in Callers, p \in KnownPrompts, path \in {CatA, CatAB, CatABC, CatX} :
        UpdateCategoryTx(t, p, path)
  \/ \E t \in Callers : GetCategoryTree(t)
  \/ \E t \in Callers : TxEnd(t)
  \/ \E t \in Callers : SyncFile(t)
  \/ \E t \in Callers : Return(t)

SpecTree == InitTree /\ [][NextTree]_vars

\* ------------------------------------- imports of a malformed version field
\* SemverCalls commands and one user edit that declares the version "1.0"
SemverCalls == 3

MalformedVersion == <<1, 0>>

InitSemver == InitOf(SemverCalls, 1)

NextSemver ==
  \/ \E t \in Callers : SavePromptStart(t)
  \/ \E t \in Callers : SavePromptTx(t, TitleA, TagsOf(TitleA), B0)
  \/ \E t \in Callers, p \in KnownPrompts : SaveVersionStart(t, p)
  \/ \E t \in Callers, body \in {B1, B3} : SaveVersionTx(t, body)
  \/ \E t \in Threads : TxEnd(t)
  \/ \E t \in Callers : SyncFile(t)
  \/ WatcherImportStart
  \/ WatcherImportTx
  \/ \E path \in DOMAIN files : ExternalEdit(path, TitleA, B2, MalformedVersion)

SpecSemver == InitSemver /\ [][NextSemver]_vars

\* --------------------------------------- title edits that race with a save
\* TitleCalls commands and one user edit that renames the prompt to TitleB
\* in a document of the version EditedVersion
TitleCalls == 2

InitTitle == InitOf(TitleCalls, 1)

NextTitle ==
  \/ \E t \in Callers : SavePromptStart(t)
  \/ \E t \in Callers : SavePromptTx(t, TitleA, TagsOf(TitleA), B0)
  \/ \E t \in Callers, p \in KnownPrompts : SaveVersionStart(t, p)
  \/ \E t \in Callers, body \in {B1} : SaveVersionTx(t, body)
  \/ \E t \in Threads : TxEnd(t)
  \/ \E t \in Callers : SyncFile(t)
  \/ WatcherImportStart
  \/ WatcherImportTx
  \/ \E path \in DOMAIN files : ExternalEdit(path, TitleB, B2, EditedVersion)

SpecTitle == InitTitle /\ [][NextTitle]_vars

\* ------------------------------------- documents of a prompt that is not there
\* one create and OrphanEdits writes by the user of well-formed documents
\* whose uuid is the uuid of no prompt
OrphanEdits == 2

OrphanDocuments ==
  {create_markdown_content(UnknownUuid, title, body, V100, TagsOf(title), 0, 0) :
     <<title, body>> \in Titles \X {B1, B2}}

InitOrphan == InitOf(1, OrphanEdits)

NextOrphan ==
  \/ \E t \in Callers : SavePromptStart(t)
  \/ \E t \in Callers : SavePromptTx(t, TitleA, TagsOf(TitleA), B0)
  \/ \E t \in Threads : TxEnd(t)
  \/ \E t \in Callers : SyncFile(t)
  \/ WatcherImportStart
  \/ WatcherImportTx
  \/ \E path \in DOMAIN files, content \in OrphanDocuments : ExternalWrite(path, content)

SpecOrphan == InitOrphan /\ [][NextOrphan]_vars

\* ------------------------------------------- prompts whose slugs are the same
\* SlugCalls commands and no user edit: prompts titled "A" and "a!" are
\* created and versions of them saved
SlugCalls == 3

InitSlug == InitOf(SlugCalls, 0)

NextSlug ==
  \/ \E t \in Callers : SavePromptStart(t)
  \/ \E t \in Callers, title \in Titles : SavePromptTx(t, title, TagsOf(title), B0)
  \/ \E t \in Callers, p \in KnownPrompts : SaveVersionStart(t, p)
  \/ \E t \in Callers, body \in {B1} : SaveVersionTx(t, body)
  \/ \E t \in Threads : TxEnd(t)
  \/ \E t \in Callers : SyncFile(t)
  \/ WatcherImportStart
  \/ WatcherImportTx

SpecSlug == InitSlug /\ [][NextSlug]_vars

\* ------------------------------------------- commands that are refused
\* FailingCalls commands, among them saves of invalid bodies or for unknown
\* prompts and rollbacks to unknown versions
FailingCalls == 3

InitFailing == InitOf(FailingCalls, 0)

NextFailing ==
  \/ \E t \in Callers : SavePromptStart(t)
  \/ \E t \in Callers, title \in Titles, content \in CreateBodies :
        SavePromptTx(t, title, TagsOf(title), content)
  \/ \E t \in Callers, p \in KnownPrompts \cup {UnknownUuid} : SaveVersionStart(t, p)
  \/ \E t \in Callers, body \in Bodies : SaveVersionTx(t, body)
  \/ \E t \in Callers, p \in KnownPrompts \cup {UnknownUuid}, body \in InvalidBodies :
        SaveVersionReject(t, p, body)
  \/ \E t \in Callers, v \in KnownVersions : RollbackStart(t, v)
  \/ \E t \in Callers : RollbackMissing(t, UnknownUuid)
  \/ \E t \in Callers : RollbackTx(t)
  \/ \E t \in Callers : TxEnd(t)
  \/ \E t \in Callers : SyncFile(t)
  \/ \E t \in Callers : Return(t)

SpecFailing == InitFailing /\ [][NextFailing]_vars

\* ------------------------------------------------------------------ claims
\* the call of thread t is inside its transaction: the tables hold what the
\* closure wrote, saved holds them as they were, call[t].out is the result
InTx(t, op) == call[t].pc = "tx" /\ call[t].op = op

\* the version rows of prompt p in vs, in insertion order
History(vs, p) == SelectSeq(vs, LAMBDA r : r.prompt_uuid = p)

Semvers(vs, p) == {vs[i].semver : i \in Rows(vs, p)}

V101 == <<1, 0, 1>>
V102 == <<1, 0, 2>>

\* C1: in every reachable state, no two version rows of the same prompt carry
\* the same semver
C1_UniqueSemver ==
  \A i, j \in 1..Len(versions) :
     i # j /\ versions[i].prompt_uuid = versions[j].prompt_uuid
       => versions[i].semver # versions[j].semver

\* a committed prompt holding a version made by a save or rollback beside
\* one made by an import
C1_Witness ==
  /\ lock = Free
  /\ \E i, j \in 1..Len(versions) :
       /\ versions[i].prompt_uuid = versions[j].prompt_uuid
       /\ versions[i].parent_uuid # NoUuid
       /\ versions[j].parent_uuid = NoUuid /\ versions[j].semver # V100

\* the history of the scenario after createPrompt(B0), and after the save of B1
AfterCreate(h) == Len(h) = 1 /\ h[1].semver = V100 /\ h[1].body = B0

AfterSave(h) ==
  /\ Len(h) = 2
  /\ h[1].semver = V100 /\ h[1].body = B0
  /\ h[2].semver = V101 /\ h[2].body = B1 /\ h[2].parent_uuid = h[1].uuid

\* C2: createPrompt with body B0 yields 1.0.0; on that history a save of B1
\* yields 1.0.1 with parent 1.0.0; on that one a save of B1 is rejected as
\* duplicate content naming 1.0.1 and adds no row, and a rollback to 1.0.0
\* yields 1.0.2 with body B0 and parent 1.0.1 (backend faults apart)
C2_Scenario ==
  \A t \in Callers :
     call[t].pc = "tx" /\ call[t].out.kind # "Fault" =>
       LET c == call[t]
           h == History(saved[2], c.p)
       IN /\ c.op = "save_prompt" /\ c.body = B0 =>
               /\ c.out.kind = "Ok"
               /\ versions = Append(saved[2],
                    NewVersion(c.out.uuid, c.p, V100, B0, c.now, NoUuid))
          /\ c.op = "save_new_version" /\ c.body = B1 /\ AfterCreate(h) =>
               /\ c.out.kind = "Ok"
               /\ versions = Append(saved[2],
                    NewVersion(c.out.uuid, c.p, V101, B1, c.now, h[1].uuid))
          /\ c.op = "save_new_version" /\ c.body = B1 /\ AfterSave(h) =>
               /\ c.out = Res("DuplicateContent", V101, NoUuid)
               /\ versions = saved[2]
          /\ c.op = "rollback_to_version" /\ AfterSave(h) /\ c.v = h[1].uuid =>
               /\ c.out.kind = "Ok"
               /\ versions = Append(saved[2],
                    NewVersion(c.out.uuid, c.p, V102, B0, c.now, h[2].uuid))

\* the rollback of the scenario as the fourth of four calls on a single
\* prompt, the third of which left no row
C2_Witness ==
  \E t \in Callers :
     /\ InTx(t, "rollback_to_version")
     /\ call[t].now = MaxCalls /\ budget = 0
     /\ Len(saved[2]) = 2 /\ AfterSave(History(saved[2], call[t].p))
     /\ call[t].v = saved[2][1].uuid
     /\ call[t].out.kind = "Ok" /\ call[t].out.semver = V102

\* the committed versions of the call's prompt that hold the call's body
SameBody(t) ==
  {i \in Rows(saved[2], call[t].p) : saved[2][i].body = call[t].body}

\* C3 (as stated): a save whose body is identical to that of an existing
\* version V of the prompt fails with DuplicateContent naming V's semver,
\* for every such V, and adds no row
C3_NamesEveryDuplicate ==
  \A t \in Callers :
     InTx(t, "save_new_version") =>
       \A i \in SameBody(t) :
          /\ call[t].out = Res("DuplicateContent", saved[2][i].semver, NoUuid)
          /\ versions = saved[2]

\* C3 (amended): a save whose body is identical to that of an existing
\* version of the prompt fails with DuplicateContent naming the semver of one
\* of the versions that hold this body, and changes no row
C3_DuplicateRejected ==
  \A t \in Callers :
     InTx(t, "save_new_version") /\ SameBody(t) # {} =>
       /\ call[t].out.kind = "DuplicateContent"
       /\ \E i \in SameBody(t) : call[t].out.semver = saved[2][i].semver
       /\ versions = saved[2]
       /\ prompts = saved[1]

\* a rejected save whose body two versions of different semvers hold
C3_Witness ==
  \E t \in Callers :
     /\ InTx(t, "save_new_version")
     /\ call[t].out.kind = "DuplicateContent"
     /\ \E i, j \in SameBody(t) : saved[2][i].semver # saved[2][j].semver

\* the bodies of the rows of h are pairwise distinct
DistinctBodies(h) == \A i, j \in 1..Len(h) : i # j => h[i].body # h[j].body

\* C4 (as stated): on a prompt whose versions were made by createPrompt and
\* by saves of pairwise distinct bodies (1.0.0, 1.0.1, ... in commit order), a
\* save of one more distinct body succeeds, whatever the interleaving of the
\* callers, and receives the next patch number, with no gap and no reuse
C4_SavesSucceedInOrder ==
  \A t \in Callers :
     LET c == call[t]
         h == History(saved[2], c.p)
     IN /\ InTx(t, "save_new_version") /\ c.out.kind # "Fault"
        /\ c.p \in DOMAIN saved[1]
        /\ DistinctBodies(h) /\ SameBody(t) = {}
        => /\ \A k \in 1..Len(h) : h[k].semver = <<1, 0, k - 1>>
           /\ c.out.kind = "Ok"
           /\ c.out.semver = <<1, 0, Len(h)>>

\* C5 (as stated): a rollback to an existing version V succeeds and creates
\* exactly one new version, with V's body and a semver that no version of
\* the prompt carries
C5_RollbackSucceeds ==
  \A t \in Callers :
     InTx(t, "rollback_to_version") /\ call[t].out.kind # "Fault" =>
       /\ call[t].out.kind = "Ok"
       /\ Len(versions) = Len(saved[2]) + 1
       /\ SubSeq(versions, 1, Len(saved[2])) = saved[2]
       /\ versions[Len(versions)].prompt_uuid = call[t].p
       /\ versions[Len(versions)].body = call[t].body
       /\ versions[Len(versions)].semver \notin Semvers(saved[2], call[t].p)

\* C6: createPrompt inserts exactly one Prompt row and exactly one Version
\* row for it, with semver 1.0.0, no parent and the input body; once it
\* committed, fetching that version by its uuid returns this body and semver
C6_CreateThenGet ==
  \A t \in Callers :
     LET c == call[t]
     IN /\ InTx(t, "save_prompt") /\ c.out.kind = "Ok" =>
             /\ c.p \notin DOMAIN saved[1]
             /\ DOMAIN prompts = DOMAIN saved[1] \cup {c.p}
             /\ \A q \in DOMAIN saved[1] : prompts[q] = saved[1][q]
             /\ prompts[c.p].title = c.title /\ prompts[c.p].tags = c.tags
             /\ versions = Append(saved[2],
                  NewVersion(c.out.uuid, c.p, V100, c.body, c.now, NoUuid))
        /\ c.pc = "sync" /\ c.op = "save_prompt" =>
             \E r \in get_version_by_uuid(Committed[2], c.v) :
                /\ get_version_by_uuid(Committed[2], c.v) = {r}
                /\ r.body = c.body /\ r.semver = V100
                /\ r.prompt_uuid = c.p /\ r.parent_uuid = NoUuid

\* a committed createPrompt of the body that ends with a space, fetched
C6_Witness ==
  \E t \in Callers :
     /\ call[t].pc = "sync" /\ call[t].op = "save_prompt"
     /\ call[t].body = B2 /\ call[t].title = TitleB
     /\ get_version_by_uuid(Committed[2], call[t].v) # {}

\* a version row without its metadata field
Frozen(r) == [r EXCEPT !.metadata = <<>>]

\* C7: the committed version history is append-only: no step removes a row
\* or changes a row's uuid, prompt id, semver, body, parent or creation
\* timestamp; only the metadata field of a row may change
C7_AppendOnly ==
  [][/\ Len(Committed[2]') >= Len(Committed[2])
     /\ \A i \in 1..Len(Committed[2]) :
          Frozen(Committed[2]'[i]) = Frozen(Committed[2][i])]_vars

\* a metadata update acting on one of two committed versions
C7_Witness ==
  \E t \in Callers :
     /\ InTx(t, "metadata_update")
     /\ Len(saved[2]) >= 2
     /\ FindVersion(saved[2], call[t].v) # {}

\* C8: every write transaction is all-or-nothing.  A transaction whose
\* closure failed leaves the tables as they were before it; in every committed
\* state every prompt has its first version, and every version row that
\* becomes visible does so together with the updated_at of its prompt set to
\* the row's timestamp
C8_AllOrNothing ==
  /\ [](\A p \in DOMAIN Committed[1] :
          \E i \in Rows(Committed[2], p) :
             Committed[2][i].semver = V100 /\ Committed[2][i].parent_uuid = NoUuid)
  /\ [][/\ \A t \in Threads :
             call[t].pc = "tx" /\ call[t].out.kind # "Ok" /\ call'[t].pc # "tx"
               => prompts' = saved[1] /\ versions' = saved[2]
        /\ \A i \in (Len(Committed[2]) + 1)..Len(Committed[2]') :
             LET r == Committed[2]'[i]
             IN /\ r.prompt_uuid \in DOMAIN Committed[1]'
                /\ Committed[1]'[r.prompt_uuid].updated_at = r.created_at]_vars

\* a createPrompt that failed after inserting its Prompt row, before rollback
C8_Witness ==
  \E t \in Callers :
     /\ InTx(t, "save_prompt")
     /\ call[t].out.kind = "Fault"
     /\ DOMAIN prompts # DOMAIN saved[1]

\* C9: an import of a document whose declared semver exists for the prompt
\* is skipped without error: the version rows are unchanged
C9_ImportSkipped ==
  InTx(WatcherId, "import")
    /\ SemverExists(saved[2], call[WatcherId].p, call[WatcherId].semver)
    => /\ call[WatcherId].out.kind = "Ok"
       /\ versions = saved[2]

\* an import of an edited file: the declared semver exists with another body
C9_Witness ==
  /\ InTx(WatcherId, "import")
  /\ \E i \in Rows(saved[2], call[WatcherId].p) :
       /\ saved[2][i].semver = call[WatcherId].semver
       /\ saved[2][i].body # call[WatcherId].body

\* the committed versions of the imported prompt that hold the document's body
ImportSameBody ==
  {i \in Rows(saved[2], call[WatcherId].p) : saved[2][i].body = call[WatcherId].body}

\* C10 (as stated): an import of a document whose body equals the body of
\* an existing version of the prompt adds no version row
C10_ImportOnlyNewBody ==
  InTx(WatcherId, "import") /\ ImportSameBody # {} => versions = saved[2]

\* C10 (amended): an import adds a version row exactly when no version of
\* the prompt carries the declared semver, whatever the body: the row carries
\* the declared semver and the document's body and has no parent
C10_ImportBySemver ==
  InTx(WatcherId, "import") /\ call[WatcherId].out.kind # "Fault" =>
    LET c == call[WatcherId]
    IN IF SemverExists(saved[2], c.p, c.semver)
         THEN versions = saved[2]
         ELSE versions = Append(saved[2],
                NewVersion(c.out.uuid, c.p, c.semver, c.body, c.now, NoUuid))

\* an import that added a row whose body an existing version holds
C10_Witness ==
  /\ InTx(WatcherId, "import")
  /\ ImportSameBody # {}
  /\ Len(versions) = Len(saved[2]) + 1

\* the import in its transaction is of a document for an existing prompt,
\* declaring a semver the prompt has not, with a body no version of it holds
ImportFresh ==
  LET c == call[WatcherId]
  IN /\ InTx(WatcherId, "import")
     /\ c.out.kind # "Fault"
     /\ c.p \in DOMAIN saved[1]
     /\ parse_semver(c.semver)
     /\ ~SemverExists(saved[2], c.p, c.semver)
     /\ \A i \in Rows(saved[2], c.p) : saved[2][i].body # c.body

\* C11: the import of a well-formed document for an existing prompt, whose
\* declared semver is unused and whose body is new, adds exactly one version
\* row, carrying the declared semver and the parsed body, and sets the
\* prompt's title and tags to those of the document
C11_ImportAddsDeclared ==
  LET c == call[WatcherId]
  IN ImportFresh
       => /\ c.out.kind = "Ok"
          /\ versions = Append(saved[2],
               NewVersion(c.out.uuid, c.p, c.semver, c.body, c.now, NoUuid))
          /\ \A i \in 1..Len(saved[2]) : versions[Len(versions)].uuid # saved[2][i].uuid
          /\ prompts[c.p].title = c.title
          /\ prompts[c.p].tags = c.tags
          /\ DOMAIN prompts = DOMAIN saved[1]

\* an import added 1.0.2 to a prompt that had 1.0.0 only, and changed the
\* prompt's title
C11_Witness ==
  /\ ImportFresh
  /\ call[WatcherId].semver = V102
  /\ Semvers(saved[2], call[WatcherId].p) = {V100}
  /\ saved[1][call[WatcherId].p].title # call[WatcherId].title
  /\ Len(versions) = Len(saved[2]) + 1

\* the watcher takes the Remove event at the head of the queue
RemoveStep ==
  /\ call[WatcherId].pc = "idle"
  /\ queue # <<>>
  /\ Head(queue).kind = "Remove"
  /\ queue' = Tail(queue)

\* the version rows a file name can be the mirror of: those of its semver
\* whose prompt's title has its slug, and among them those created on its
\* date when there are any
NamedBy(path) ==
  LET C == {i \in 1..Len(versions) :
              /\ versions[i].semver = path.semver
              /\ versions[i].prompt_uuid \in DOMAIN prompts
              /\ Slug(prompts[versions[i].prompt_uuid].title) = path.slug}
      D == {i \in C : DateOf(versions[i].created_at) = path.date}
  IN IF D # {} THEN D ELSE C

\* C12: when the deleted file is the mirror of exactly one version, the
\* Removed event is answered by recreating a file at the same path from
\* that version's record (identifier, semver, title, tags, body)
C12_RecreatesDeleted ==
  [][RemoveStep /\ Cardinality(NamedBy(Head(queue).path)) = 1
       => LET path == Head(queue).path
              i == CHOOSE j \in NamedBy(path) : TRUE
              c == call'[WatcherId]
          IN /\ c.pc = "recreate"
             /\ c.p = versions[i].prompt_uuid
             /\ c.semver = versions[i].semver
             /\ c.body = versions[i].body
             /\ c.title = prompts[c.p].title
             /\ c.tags = prompts[c.p].tags
             /\ PathOf(DateOf(c.now), c.title, c.semver) = path]_vars

\* the watcher finishes the handling of a Remove event by writing the file
RecreateStep ==
  /\ call[WatcherId].pc = "recreate"
  /\ call'[WatcherId].pc # "recreate"

\* C13: handling a Removed event, matched to a record or not, leaves every
\* prompts row and every versions row as it was
C13_RemoveKeepsRows ==
  [][RemoveStep \/ RecreateStep
       => /\ prompts' = prompts
          /\ versions' = versions]_vars

\* a matched Remove event is being handled while the tables hold two versions
C13_Witness ==
  /\ call[WatcherId].pc = "recreate"
  /\ call[WatcherId].p \in DOMAIN prompts
  /\ Len(versions) >= 2

TagSet(tags) == {tags[i] : i \in 1..Len(tags)}

\* the watcher has read the one mirror file there is
MirrorRead == files # <<>> /\ queue = <<>>

\* C14: the document the mirror writes for a record is parsed back to the
\* identifier, semver, title, set of tags and body of that record
C14_RoundTrip ==
  LET c == call[WatcherId]
  IN MirrorRead
       => /\ c.pc = "ready"
          /\ c.p \in DOMAIN prompts
          /\ c.title = prompts[c.p].title
          /\ TagSet(c.tags) = TagSet(prompts[c.p].tags)
          /\ \E i \in Rows(versions, c.p) :
               /\ versions[i].semver = c.semver
               /\ versions[i].body = c.body

\* a command or the watcher performs a mirror write: a filesystem event
\* results that no user caused
MirrorWriteStep ==
  /\ Len(queue') > Len(queue)
  /\ edits' = edits

\* C15: mirror writes are idempotent: a write is performed only where it
\* changes the file tree, never onto a file of identical content
C15_NoRedundantWrite == [][MirrorWriteStep => files' # files]_vars

\* the mirror write of the command of caller t has failed after its
\* transaction committed, and the command has returned
WriteFailed(t, op) == call[t].pc = "done" /\ call[t].op = op

\* C16: a createPrompt whose transaction committed and whose mirror write
\* failed reports success to its caller
C16_CreateReportsOk ==
  \A t \in Callers : WriteFailed(t, "save_prompt") => call[t].out.kind = "Ok"

\* C17: after a failed mirror write the rows the committed transaction
\* inserted are in the tables: the version row of every command, and the
\* prompt row of createPrompt
C17_WriteFailureKeepsRows ==
  \A t \in Callers :
    call[t].pc = "done"
      => /\ call[t].p \in DOMAIN prompts
         /\ \E i \in Rows(versions, call[t].p) :
              /\ versions[i].uuid = call[t].v
              /\ versions[i].semver = call[t].semver
              /\ versions[i].body = call[t].body

\* the mirror write of a saveVersion or rollbackTo has failed
C17_Witness ==
  \E t \in Callers :
    /\ call[t].pc = "done"
    /\ call[t].op # "save_prompt"
    /\ Len(versions) >= 2

\* a step of the watcher in which the handling of an event fails: the file
\* of a Write event cannot be read, parsed or validated, or the record of a
\* Remove event is not found; the import fails in the database; the file
\* cannot be recreated
WatcherFails ==
  LET c == call[WatcherId]
  IN \/ /\ c.pc = "idle"
        /\ Len(queue') < Len(queue)
        /\ call'[WatcherId].pc \notin {"ready", "recreate"}
     \/ /\ c.pc = "tx"
        /\ c.out.kind # "Ok"
        /\ call'[WatcherId] # c
     \/ /\ c.pc = "recreate"
        /\ call'[WatcherId] # c
        /\ files' = files
        /\ queue' = queue

\* C18: the watcher survives every failure of an import or a regeneration:
\* its thread never leaves its loop, and a failed handling ends with the
\* watcher ready for the next event, the events that remain still queued
C18_WatcherGoesOn ==
  [][/\ call'[WatcherId].pc \in {"idle", "ready", "tx", "recreate"}
     /\ WatcherFails
          => /\ call'[WatcherId].pc = "idle"
             /\ queue' = queue \/ (queue # <<>> /\ queue' = Tail(queue))]_vars

\* an import has failed in the database while further events wait
C18_Witness ==
  /\ call[WatcherId].pc = "tx"
  /\ call[WatcherId].out.kind = "Fault"
  /\ queue # <<>>

\* C19: the watcher handles its events one at a time and in arrival order.
\* An event leaves the channel only when the watcher has finished the
\* previous one, it is the oldest event, the watcher then works on that
\* event's file with the document the file holds at that moment, and new
\* events join the channel behind the waiting ones.  Two successive edits
\* of one file are therefore imported in the order they were made.
C19_OneAtATimeInOrder ==
  [][/\ Len(queue') < Len(queue) =>
          /\ call[WatcherId].pc = "idle"
          /\ queue' = Tail(queue)
          /\ call'[WatcherId].pc # "idle" => call'[WatcherId].path = Head(queue).path
          /\ call'[WatcherId].pc = "ready" =>
                \E doc \in {ReadDocument(files, Head(queue).path)} :
                  /\ call'[WatcherId].p = doc.uuid
                  /\ call'[WatcherId].title = doc.title
                  /\ call'[WatcherId].body = doc.body
                  /\ call'[WatcherId].semver = doc.version
     /\ Len(queue') >= Len(queue) => SubSeq(queue', 1, Len(queue)) = queue
     /\ call[WatcherId].pc # "idle" => Len(queue') >= Len(queue)]_vars

\* the watcher is importing a user's first edit of a file while the event
\* of the second edit of the same file waits in the channel
C19_Witness ==
  /\ edits = 0
  /\ call[WatcherId].pc = "ready"
  /\ queue # <<>>
  /\ Head(queue) = Event("Write", call[WatcherId].path)
  /\ call[WatcherId].path \in DOMAIN files
  /\ call[WatcherId].p \in DOMAIN prompts
  /\ call[WatcherId].title # prompts[call[WatcherId].p].title
  /\ \E doc \in {ReadDocument(files, call[WatcherId].path)} :
       doc.title # call[WatcherId].title
\* thread t reads or writes a mirror file in this step: a command or the
\* watcher writes (or fails to write) its file, or the watcher reads the
\* file of a Write event
FileIO(t) ==
  \/ /\ call[t].pc \in {"sync", "recreate"}
     /\ call'[t] # call[t]
  \/ /\ t = WatcherId
     /\ call[t].pc = "idle"
     /\ queue # <<>>
     /\ Head(queue).kind = "Write"
     /\ queue' = Tail(queue)

\* C20: no thread reads or writes a mirror file while it holds the
\* database lock.  The connection is locked by a thread only inside its
\* transaction; the watcher reads a file before it takes the lock, and the
\* commands and the watcher write their files after they released it.
C20_NoFileIOUnderLock ==
  [][\A t \in Threads :
       /\ lock = t => call[t].pc = "tx"
       /\ FileIO(t) => lock # t /\ lock' # t
       /\ (files' # files /\ call'[t] # call[t]) => lock # t /\ lock' # t]_vars

\* a command is about to write its mirror file while the watcher is inside
\* the transaction of an import, for which it has read a file before
C20_Witness ==
  /\ lock = WatcherId
  /\ call[WatcherId].op = "import"
  /\ call[WatcherId].path \in DOMAIN files
  /\ \E t \in Callers : call[t].pc = "sync"

\* the transaction of the call of thread t begins: the connection is locked
\* and the closure runs
CallerTx(t) ==
  \/ \E title \in Titles, content \in CreateBodies :
        SavePromptTx(t, title, TagsOf(title), content)
  \/ \E body \in Bodies : SaveVersionTx(t, body)
  \/ RollbackTx(t)

\* C21: a caller that reaches with_transaction while another thread holds
\* the connection does not wait: whenever a call stands before its
\* transaction, it can take its next step at once (run the closure or
\* return a lock-busy error).
C21_NeverWaits ==
  \A t \in Callers : call[t].pc = "ready" => ENABLED CallerTx(t)

\* thread t runs a with_connection closure in this step: rollback_to_version
\* reads its target version, the watcher looks up the record of a deleted
\* file
ReadsConnection(t) ==
  \/ /\ t \in Callers
     /\ call[t].pc = "idle"
     /\ call'[t].pc = "ready"
     /\ call'[t].op = "rollback_to_version"
  \/ /\ t = WatcherId
     /\ call[t].pc = "idle"
     /\ queue # <<>>
     /\ Head(queue).kind = "Remove"
     /\ queue' = Tail(queue)

\* C22: at most one closure runs against the shared connection at any
\* instant, and no thread takes the connection while it holds it.  The
\* connection is held exactly by the thread inside its closure, it is taken
\* only when free, and a with_connection closure runs only when no
\* transaction is open.
C22_OneClosureAtATime ==
  [][/\ Cardinality({t \in Threads : call[t].pc = "tx"}) <= 1
     /\ \A t \in Threads :
          /\ call[t].pc = "tx" <=> lock = t
          /\ (lock' = t /\ call'[t] # call[t]) => lock = Free
          /\ ReadsConnection(t) => lock = Free /\ lock' = Free]_vars

\* the watcher is inside the transaction of an import while a command
\* stands before its own transaction
C22_Witness ==
  /\ lock = WatcherId
  /\ call[WatcherId].pc = "tx"
  /\ \E t \in Callers : call[t].pc = "ready"

\* the rows of the full-text index for version row r
IndexRows(r) == {k \in 1..Len(fts) : fts[k].uuid = r.uuid}

Refused(t, op, kind) ==
  /\ call[t].pc = "idle"
  /\ call'[t].pc = "failed"
  /\ call'[t].op = op
  /\ call'[t].out.kind = kind

\* C24: saveVersion fails with PromptNotFound when the prompt has no row
\* and with InvalidInput when the body is empty, blank or longer than
\* 100,000 characters; rollbackTo fails with VersionNotFound when the
\* version does not exist; none of them changes a prompt or version row or
\* writes a mirror file.  A body of InvalidBodies never reaches the
\* transaction; a call that is refused leaves tables and files alone; a
\* saveVersion for a prompt without a row ends its closure with
\* PromptNotFound, the tables untouched, and returns without a mirror write.
C24_RefusedCleanly ==
  /\ [](\A t \in Callers, body \in InvalidBodies : ~ENABLED SaveVersionTx(t, body))
  /\ [][\A t \in Callers :
          /\ call'[t].pc = "failed" /\ call[t].pc # "failed" =>
               /\ \/ Refused(t, "save_new_version", "InvalidInput")
                  \/ /\ Refused(t, "rollback_to_version", "VersionNotFound")
                     /\ FindVersion(versions, call'[t].v) = {}
               /\ UNCHANGED <<prompts, versions, fts, files, queue>>
          /\ (/\ call[t].pc = "ready"
              /\ call[t].op = "save_new_version"
              /\ call[t].p \notin DOMAIN prompts
              /\ call'[t].pc = "tx") =>
               /\ call'[t].out.kind = "PromptNotFound"
               /\ UNCHANGED <<prompts, versions, fts, files, queue>>
          /\ (call[t].pc = "tx" /\ call[t].out.kind = "PromptNotFound"
              /\ call'[t] # call[t]) =>
               /\ call'[t].pc = "idle"
               /\ prompts' = saved[1] /\ versions' = saved[2]
               /\ UNCHANGED <<files, queue>>
          /\ (call[t].pc = "failed" /\ call'[t] # call[t]) =>
               /\ call'[t].pc = "idle"
               /\ UNCHANGED <<prompts, versions, fts, files, queue>>]_vars

\* with a prompt stored, one caller has been refused an invalid body while
\* the other is told that its prompt does not exist
C24_Witness ==
  /\ versions # <<>>
  /\ \E t, u \in Callers :
       /\ call[t].pc = "failed" /\ call[t].out.kind = "InvalidInput"
       /\ InTx(u, "save_new_version") /\ call[u].out.kind = "PromptNotFound"

\* numeric comparison a < b of two semvers, component by component
SemverLess(a, b) ==
  /\ Len(a) = 3 /\ Len(b) = 3
  /\ \/ a[1] < b[1]
     \/ a[1] = b[1] /\ a[2] < b[2]
     \/ a[1] = b[1] /\ a[2] = b[2] /\ a[3] < b[3]

\* C25: per prompt, semver strictly increases with creation: of two version
\* rows of one prompt, the one committed later (the later row of the table)
\* has the greater semver.
C25_SemverIncreases ==
  lock = Free =>
    \A i, j \in 1..Len(versions) :
      (i < j /\ versions[i].prompt_uuid = versions[j].prompt_uuid)
        => SemverLess(versions[i].semver, versions[j].semver)

\* C26: every version that has a parent has a parent that is an existing
\* version row of the same prompt.
C26_ParentInPrompt ==
  \A i \in 1..Len(versions) :
    versions[i].parent_uuid # NoUuid =>
      \E j \in 1..Len(versions) :
        /\ j # i
        /\ versions[j].uuid = versions[i].parent_uuid
        /\ versions[j].prompt_uuid = versions[i].prompt_uuid

\* two prompts are stored, and a version of one of them has a parent that
\* has a parent itself
C26_Witness ==
  /\ lock = Free
  /\ Cardinality(DOMAIN prompts) = 2
  /\ \E i, j \in 1..Len(versions) :
       /\ versions[i].parent_uuid = versions[j].uuid
       /\ versions[j].parent_uuid # NoUuid

\* a prompt row within the limits of validate_prompt_input (security.rs
\* lines 46-87)
RowWithinLimits(r) ==
  /\ r.title # <<>>
  /\ Len(r.title) <= MaxTitleLen
  /\ Len(r.tags) <= MaxTags
  /\ \A i \in 1..Len(r.tags) :
       Len(r.tags[i]) <= MaxTagLen /\ ~Contains(r.tags[i], {"<", ">"})

MetadataFields ==
  {"title", "tags", "models", "category_path", "notes", "custom_fields"}

\* C28: a step base.merge_with(update) leaves in every field of base the
\* field of update when that is present and the previous field of base when
\* it is absent; merging the same update a second time changes nothing
C28_MergeRightBiased ==
  [][call'["c1"].op = "merge_with" =>
       /\ \A f \in MetadataFields :
            call'["c1"].meta[f] =
              IF call'["c2"].meta[f] # <<>> THEN call'["c2"].meta[f]
                                            ELSE call["c1"].meta[f]
       /\ call["c1"].op = "merge_with" /\ call'["c2"].meta = call["c2"].meta =>
            call'["c1"].meta = call["c1"].meta]_vars

\* an update with a title and without tags was merged twice into a base
\* that had tags: the title is the update's, the tags are kept
C28_Witness ==
  /\ budget = 0
  /\ call["c1"].op = "merge_with"
  /\ call["c2"].meta.title = <<TitleB>>
  /\ call["c2"].meta.tags = <<>>
  /\ call["c1"].meta.title = <<TitleB>>
  /\ call["c1"].meta.tags = <<<<>>>>
  /\ call["c1"].meta.notes # call["c2"].meta.notes

\* the title or the tags of m are out of the limits the claim names: a
\* title that is empty or longer than 255, more than 10 tags, a tag that
\* is empty or longer than 25
TitleOrTagsOutOfLimits(m) ==
  \/ m.title # <<>> /\ (m.title[1] = <<>> \/ Len(m.title[1]) > MaxTitleLen)
  \/ /\ m.tags # <<>>
     /\ \/ Len(m.tags[1]) > MetaMaxTags
        \/ \E i \in 1..Len(m.tags[1]) :
             m.tags[1][i] = <<>> \/ Len(m.tags[1][i]) > MetaMaxTagLen

\* m is refused for what it holds besides: a blank title or tag, a category
\* path that is too long or has a control character, notes that are too long
OtherwiseOutOfLimits(m) ==
  \/ m.title # <<>> /\ Trim(m.title[1]) = <<>>
  \/ m.tags # <<>> /\ \E i \in 1..Len(m.tags[1]) : Trim(m.tags[1][i]) = <<>>
  \/ /\ m.category_path # <<>>
     /\ \/ Len(m.category_path[1]) > MetaMaxPathLen
        \/ Contains(m.category_path[1], ControlChars)
  \/ m.notes # <<>> /\ Len(m.notes[1]) > MetaMaxNotesLen

\* a metadata_update of thread t was refused
MetadataRefused(t) == call[t].pc = "failed" /\ call[t].op = "metadata_update"

\* C29 as stated: metadata validation rejects exactly the payloads whose
\* title or tags are out of limits, so every refused metadata update has
\* such a payload
C29_RejectsExactlyTitleAndTags ==
  \A t \in Callers : MetadataRefused(t) => TitleOrTagsOutOfLimits(call[t].meta)

\* C29 amended: a payload is refused exactly when its title, tags, category
\* path or notes are out of limits, a refused payload never reaches the
\* transaction, and the refused update changes no row, index entry or file
C29_RejectsOutOfLimits ==
  /\ [](\A t \in Callers, payload \in AllPayloads :
          /\ FirstIdle(t) /\ budget > 0 =>
               (ENABLED MetadataReject(t, UnknownUuid, payload)
                  <=> TitleOrTagsOutOfLimits(payload) \/ OtherwiseOutOfLimits(payload))
          /\ TitleOrTagsOutOfLimits(payload) \/ OtherwiseOutOfLimits(payload) =>
               \A v \in KnownVersions \cup {UnknownUuid} :
                 ~ENABLED MetadataTx(t, v, payload))
  /\ [][\A t \in Callers :
          call'[t].pc = "failed" /\ call[t].pc # "failed" =>
            /\ TitleOrTagsOutOfLimits(call'[t].meta) \/ OtherwiseOutOfLimits(call'[t].meta)
            /\ UNCHANGED <<prompts, versions, fts, files, queue>>]_vars

\* an update of an existing version was refused for its title or tags while
\* another update of that version is in its transaction
C29_Witness ==
  \E t, u \in Callers :
    /\ MetadataRefused(t)
    /\ call[t].meta \in BadTitlesAndTags
    /\ call[t].v \in {versions[i].uuid : i \in 1..Len(versions)}
    /\ InTx(u, "metadata_update")
    /\ call[u].v = call[t].v


\* the save of thread t met a collision: the patch bump of the semver of a
\* most recently created version of its prompt is the semver of a version
NextPatchTaken(t) ==
  \E l \in LatestVersion(saved[2], call[t].p) :
     /\ parse_semver(saved[2][l].semver)
     /\ SemverExists(saved[2], call[t].p, bump_patch_version(saved[2][l].semver))

\* the semvers of prompt p in vs that no other is numerically greater than
GreatestSemvers(vs, p) ==
  {s \in Semvers(vs, p) : \A r \in Semvers(vs, p) : ~SemverLess(s, r)}

\* C31: a save of a new body that meets a collision does not fail; the
\* version is inserted with the patch bump of the numerically greatest
\* semver of the prompt, which no version carried
C31_CollisionRecovered ==
  \A t \in Callers :
     /\ InTx(t, "save_new_version") /\ call[t].out.kind # "Fault"
     /\ call[t].p \in DOMAIN saved[1]
     /\ SameBody(t) = {}
     /\ NextPatchTaken(t)
     => /\ call[t].out.kind = "Ok"
        /\ \E s \in GreatestSemvers(saved[2], call[t].p) :
             call[t].out.semver = bump_patch_version(s)
        /\ call[t].out.semver \notin Semvers(saved[2], call[t].p)
        /\ Len(versions) = Len(saved[2]) + 1
        /\ versions[Len(versions)].semver = call[t].out.semver

\* C30: a version that saveVersion or rollbackTo inserts without meeting a
\* collision has as parent the version of its prompt that was committed
\* immediately before it, and no parent when the prompt had no version
C30_ParentIsPrevious ==
  \A t \in Callers :
     /\ InTx(t, "save_new_version") \/ InTx(t, "rollback_to_version")
     /\ call[t].out.kind = "Ok"
     /\ ~NextPatchTaken(t)
     => LET h == History(saved[2], call[t].p)
        IN /\ Len(versions) = Len(saved[2]) + 1
           /\ versions[Len(versions)].parent_uuid =
                IF h = <<>> THEN NoUuid ELSE h[Len(h)].uuid

\* the watcher has nothing to do
WatcherQuiet == queue = <<>> /\ call[WatcherId].pc = "idle" /\ lock # WatcherId

\* C32: where every file is one the core wrote, no transaction of the
\* watcher adds a version row, a file is written only by a command or by
\* the regeneration that answers a deletion, and the watcher comes to rest:
\* from some point on its queue is empty and it is idle
C32_NoFeedbackLoop ==
  /\ [][/\ lock' = WatcherId /\ lock # WatcherId => versions' = versions
        /\ files' # files =>
             \/ \E t \in Callers : call[t].pc = "sync" /\ call'[t].pc = "idle"
             \/ call[WatcherId].pc = "recreate"
             \/ edits' # edits]_vars
  /\ <>[]WatcherQuiet

\* the watcher imports the file that a regeneration wrote
C32_Witness ==
  /\ InTx(WatcherId, "import")
  /\ edits = 0
  /\ versions = saved[2]
  /\ Len(versions) > 1
  /\ call[WatcherId].path \in DOMAIN files

\* nothing is in flight: the channel is empty and every thread is idle
AllQuiet == queue = <<>> /\ lock = Free /\ \A t \in Threads : call[t].pc = "idle"

\* C33: when the watcher has drained its channel and no call is in flight,
\* every mirror file that names a version of the database has the body of
\* that version (up to the surrounding whitespace the parser strips)
C33_MirrorConsistent ==
  AllQuiet =>
    \A path \in DOMAIN files :
       \E doc \in {ParseDocument(files[path])} :
          doc.ok =>
            \A i \in 1..Len(versions) :
               versions[i].prompt_uuid = doc.uuid /\ versions[i].semver = doc.version
                 => Trim(versions[i].body) = doc.body

\* the idle watcher takes a Write event whose file holds the document doc
TakesDocument(doc) ==
  /\ ImportPending
  /\ queue' = Tail(queue)
  /\ Head(queue).path \in DOMAIN files
  /\ files[Head(queue).path] = doc

\* C34: a Write event for a document without front matter, uuid or title,
\* or whose title, tags or body fail validation, is dropped: the watcher
\* stays idle, no transaction is opened and no row, index entry or file
\* changes; no import ever carries the fields of such a document
C34_BadDocumentDropped ==
  /\ [][\A doc \in MalformedDocuments \cup InvalidDocuments :
          TakesDocument(doc) =>
            /\ call'[WatcherId] = IdleCall
            /\ UNCHANGED <<prompts, versions, fts, saved, lock, files>>]_vars
  /\ [](call[WatcherId].op = "import" =>
          /\ call[WatcherId].title \in Titles
          /\ call[WatcherId].tags = TagsOf(call[WatcherId].title)
          /\ call[WatcherId].body \in {B0, B1})

\* a refused document was dropped and a good one imported before or
\* after it: the prompt has the good document's title and two versions
C34_Witness ==
  /\ edits = 0
  /\ AllQuiet
  /\ Len(versions) = 2
  /\ \E p \in DOMAIN prompts : prompts[p].title = TitleB

\* the category a rename of old_path to new_path is to give a prompt of
\* category path: new_path for old_path itself, new_path/<rest> for
\* old_path/<rest>, and path for every other
Renamed(path, old_path, new_path) ==
  IF path = old_path THEN new_path
  ELSE IF /\ Len(path) > Len(old_path)
          /\ SubSeq(path, 1, Len(old_path) + 1) = old_path \o <<"/">>
    THEN new_path \o SubSeq(path, Len(old_path) + 1, Len(path))
  ELSE path

\* C35: a rename that succeeds gives every prompt the category Renamed
\* names and changes nothing else but updated_at; a rename of
\* 'Uncategorized', to the same path or to a category some prompt has is
\* rejected and changes nothing
C35_RenameMovesSubtree ==
  \A t \in Callers :
     /\ InTx(t, "rename_category") =>
          /\ versions = saved[2]
          /\ DOMAIN prompts = DOMAIN saved[1]
          /\ IF call[t].out.kind = "Ok"
               THEN \A p \in DOMAIN prompts :
                      /\ prompts[p].category_path =
                           Renamed(saved[1][p].category_path, call[t].old_path,
                                   call[t].category)
                      /\ prompts[p].title = saved[1][p].title
                      /\ prompts[p].tags = saved[1][p].tags
               ELSE prompts = saved[1]
          /\ (\E p \in DOMAIN saved[1] : saved[1][p].category_path = call[t].category)
               => call[t].out.kind # "Ok"
          /\ call[t].old_path # Uncategorized
          /\ call[t].old_path # call[t].category

\* the nodes of a forest, each with the path of the node it hangs under
RECURSIVE NodesUnder(_, _)
NodesUnder(nodes, parent) ==
  IF nodes = <<>> THEN <<>>
  ELSE <<[path |-> Head(nodes).path, parent |-> parent, count |-> Head(nodes).count]>>
       \o NodesUnder(Head(nodes).children, Head(nodes).path)
       \o NodesUnder(Tail(nodes), parent)

\* path is prefix or a path under prefix
IsWithin(path, prefix) ==
  \/ path = prefix
  \/ /\ Len(path) > Len(prefix)
     /\ SubSeq(path, 1, Len(prefix) + 1) = prefix \o <<"/">>

\* the path above path, empty for a path of one part
ParentPath(path) ==
  LET parts == Split(path, "/") IN Join(SubSeq(parts, 1, Len(parts) - 1), "/")

RECURSIVE CountWithin(_, _)
CountWithin(category_counts, prefix) ==
  IF category_counts = <<>> THEN 0
  ELSE (IF IsWithin(Head(category_counts).category_path, prefix)
          THEN Head(category_counts).count ELSE 0)
       + CountWithin(Tail(category_counts), prefix)

\* C36: the tree get_category_tree returns has exactly one node for every
\* category path of a prompt and every ancestor of it, under its parent, and
\* no other node, and the count of a node is the number of prompts in that
\* category or under it, whatever the iteration order of the map
C36_TreeComplete ==
  \A t \in Callers :
     call[t].pc = "done" /\ call[t].op = "get_category_tree" =>
       LET nodes == NodesUnder(call[t].tree, <<>>)
           Expected == {k \in DOMAIN FirstPass(call[t].counts) : TRUE}
       IN /\ \A k \in Expected :
               \E i \in 1..Len(nodes) :
                  /\ nodes[i].path = k
                  /\ nodes[i].parent = ParentPath(k)
                  /\ nodes[i].count = CountWithin(call[t].counts, k)
                  /\ \A j \in 1..Len(nodes) : nodes[j].path = k => j = i
          /\ \A i \in 1..Len(nodes) : nodes[i].path \in Expected

\* C37: the semver of every version row is three numbers, and a save of a
\* valid body that no version of an existing prompt holds is not refused by
\* the store
C37_SemversWellFormed ==
  /\ \A i \in 1..Len(versions) : parse_semver(versions[i].semver)
  /\ \A t \in Callers :
        /\ InTx(t, "save_new_version")
        /\ call[t].p \in DOMAIN saved[1]
        /\ ValidBody(call[t].body)
        /\ \A i \in Rows(saved[2], call[t].p) : saved[2][i].body # call[t].body
        => call[t].out.kind # "StoreError"

\* the document the watcher is importing is the mirror of a version the
\* database holds: the file of one of the core's own writes
ImportsOwnWrite ==
  /\ InTx(WatcherId, "import")
  /\ \E i \in Rows(saved[2], call[WatcherId].p) :
        /\ saved[2][i].semver = call[WatcherId].semver
        /\ saved[2][i].body = call[WatcherId].body

\* C38: when the watcher handles the file of one of the core's own writes,
\* the title and the tags of every prompt are after the import what they
\* were before it
C38_OwnWriteKeepsTitle ==
  ImportsOwnWrite =>
    \A p \in DOMAIN saved[1] :
       /\ prompts[p].title = saved[1][p].title
       /\ prompts[p].tags = saved[1][p].tags

\* C39: the prompt_uuid of every version row is the uuid of a prompt row,
\* and an import of a document whose uuid is the uuid of no prompt adds no
\* version row
C39_VersionsHavePrompts ==
  /\ \A i \in 1..Len(versions) : versions[i].prompt_uuid \in DOMAIN prompts
  /\ InTx(WatcherId, "import") /\ call[WatcherId].p \notin DOMAIN saved[1]
       => versions = saved[2]

\* the file at path is replaced in this step by a file of another content
Overwritten(path) ==
  /\ path \in DOMAIN files'
  /\ files'[path] # files[path]

\* C40: where no user touches the files, a mirror file is only ever
\* replaced by a document of the same prompt and the same version: no two
\* versions are written to one path
C40_NoSharedFile ==
  [][\A path \in DOMAIN files :
       Overwritten(path) =>
         /\ ParseDocument(files'[path]).uuid = ParseDocument(files[path]).uuid
         /\ ParseDocument(files'[path]).version = ParseDocument(files[path]).version]_vars

====
